---- MODULE Spec2Model ----
(***************************************************************************)
(* A model of the transit-feed map viewer: the CSV parser                  *)
(* (src/src/utils/parseCSV.ts), the feed joins and the filter/selection    *)
(* state of the map component (src/src/components/Map.tsx) and the stop    *)
(* layers (src/src/components/StopClusters.tsx, src/unnamed/part_001).     *)
(*                                                                         *)
(* Strings are sequences of one-character strings, so that toLowerCase,    *)
(* includes, startsWith and trim are computed as the code computes them.   *)
(***************************************************************************)
EXTENDS Integers, Sequences, FiniteSets, TLC

VARIABLES
    pc,         \* position of a one-shot computation: "start" or "done"
    text,       \* parseCSV: the raw text handed to the parser
    objects,    \* parseCSV: the row objects it returns
    shapes,     \* Map.tsx: the rows of shapes.txt
    shapeMap,   \* Map.tsx: shape_id -> ordered points
    routes,     \* Map.tsx: the rows of routes.txt
    routeColor, \* Map.tsx: route_id -> color
    memo,       \* Map.tsx: the memoised feed tables the join reads
    stopToRouteNames,   \* Map.tsx: stop id -> names of the routes nearby
    stopToRouteIds,     \* Map.tsx: stop id -> ids of the routes nearby
    selectedRoute,      \* Map.tsx: filter state, the route picked in the select
    routeSearch,        \* Map.tsx: filter state, the route search text
    wheelchairOnly,     \* Map.tsx: filter state, the accessibility checkbox
    stopMetaFilter,     \* Map.tsx: filter state, the stop filter text
    hdPolyline,         \* Map.tsx: the enriched path, or NoGeometry
    latest,             \* the routing request of the last run of the selection effect
    stale,              \* shape id -> routing requests of earlier runs still in flight
    polylines,          \* the polylines the last render drew
    markers,            \* StopClusters.tsx: the stops in the attached cluster group
    markersAlt,         \* part_001: the stops in the attached cluster group
    options,            \* Map.tsx: the values of the options of the select, in order
    layers,             \* StopClusters.tsx: the cluster groups attached to the map
    layersAlt,          \* part_001: the cluster groups attached to the map
    stopPoints, \* the stop points: built by Map.tsx, handed to the stop layer
    gridSizePx, \* StopClusters.tsx (grid): the cell size in pixels
    view, \* the view of the map, which fixes the projection
    clusters, \* StopClusters.tsx (grid): the cluster state
    handlers, \* the listeners registered on the map, per event
    lastPass, \* how the last run of computeClusters ended
    stopRows, \* Map.tsx: stops, the rows of stops.txt
    tripRows, \* Map.tsx: trips, the rows of trips.txt
    shapeToRoute, \* Map.tsx: shape_id -> route_id
    routeWheelchair, \* Map.tsx: route_id -> true
    relationId, \* part_000: the relationId prop of OSMRelation
    ways, \* part_000: the ways state
    error, \* part_000: the error state, a text or Null
    relLatest, \* the Overpass request of the last run of the effect of OSMRelation
    relStale, \* relation id -> Overpass requests of earlier runs still in flight
    relShown \* the coordinates of the polylines the last render of OSMRelation drew

csvVars   == <<text, objects>>
shapeVars == <<shapes, shapeMap>>
routeVars == <<routes, routeColor>>
joinVars  == <<memo, stopToRouteNames, stopToRouteIds>>
filterVars == <<selectedRoute, routeSearch, wheelchairOnly, stopMetaFilter>>
fetchVars == <<hdPolyline, latest, stale>>
viewVars  == <<polylines, markers, markersAlt, options, layers, layersAlt>>
gridVars == <<stopPoints, gridSizePx, view, clusters, handlers, lastPass>>
tableVars == <<stopRows, tripRows, shapeToRoute, routeWheelchair>>
relVars == <<relationId, ways, error, relLatest, relStale, relShown>>

(***************************************************************************)
(* Bounds                                                                  *)
(***************************************************************************)
MaxBody == 5        \* characters of CSV text after the header line
MaxShapeRows == 3   \* rows of shapes.txt
MaxRouteRows == 2   \* rows of routes.txt
MaxShapePoints == 3 \* points of the shape the join varies
MaxInFlight == 2    \* routing requests in flight at a time
MaxGridStops == 3   \* stops handed to the grid stop layer
MaxStopRows == 2    \* rows of stops.txt
MaxTripRows == 3    \* rows of trips.txt
MaxRelationFetches == 3 \* Overpass requests in flight at a time

(***************************************************************************)
(* Strings                                                                 *)
(***************************************************************************)
Q  == "\""
NL == "\n"
SP == " "
Empty == <<>>

\* all sequences over S of length at most n
RECURSIVE SeqsUpTo(_, _)
SeqsUpTo(S, n) ==
    IF n = 0 THEN {<<>>}
    ELSE LET shorter == SeqsUpTo(S, n - 1)
         IN  shorter \cup {Append(s, c) : s \in {t \in shorter : Len(t) = n - 1}, c \in S}

Range(s) == {s[i] : i \in 1..Len(s)}

\* String.prototype.toLowerCase on the model's alphabet
LowerChar(c) ==
    CASE c = "A" -> "a"
      [] c = "B" -> "b"
      [] OTHER   -> c

ToLowerCase(s) == [i \in 1..Len(s) |-> LowerChar(s[i])]

\* String.prototype.includes
Includes(s, q) ==
    \E i \in 0..(Len(s) - Len(q)) : SubSeq(s, i + 1, i + Len(q)) = q

\* String.prototype.startsWith
StartsWith(s, p) ==
    Len(p) <= Len(s) /\ SubSeq(s, 1, Len(p)) = p

IsSpace(c) == c = SP \/ c = NL

\* String.prototype.trim: white space and line terminators off both ends
RECURSIVE TrimLeft(_)
TrimLeft(s) ==
    IF Len(s) > 0 /\ IsSpace(s[1]) THEN TrimLeft(Tail(s)) ELSE s

RECURSIVE TrimRight(_)
TrimRight(s) ==
    IF Len(s) > 0 /\ IsSpace(s[Len(s)]) THEN TrimRight(SubSeq(s, 1, Len(s) - 1)) ELSE s

Trim(s) == TrimRight(TrimLeft(s))

(***************************************************************************)
(* parseCSV (src/src/utils/parseCSV.ts)                                    *)
(***************************************************************************)

\* pass 1, lines 3-24: the text cut into logical lines
RECURSIVE SplitLines(_, _, _, _, _)
SplitLines(t, i, currentLine, insideQuotes, lines) ==
    IF i > Len(t)
    THEN IF Len(currentLine) > 0 THEN Append(lines, currentLine) ELSE lines
    ELSE LET char == t[i] IN
         IF char = Q
         THEN IF insideQuotes /\ i + 1 <= Len(t) /\ t[i + 1] = Q
              THEN SplitLines(t, i + 2, Append(currentLine, Q), insideQuotes, lines)
              ELSE SplitLines(t, i + 1, currentLine, ~insideQuotes, lines)
         ELSE IF char = NL /\ ~insideQuotes
              THEN SplitLines(t, i + 1, <<>>, insideQuotes, Append(lines, currentLine))
              ELSE SplitLines(t, i + 1, Append(currentLine, char), insideQuotes, lines)

\* pass 2, lines 26-50: one logical line cut into columns
RECURSIVE SplitFields(_, _, _, _, _)
SplitFields(line, i, currentField, inFieldQuotes, columns) ==
    IF i > Len(line)
    THEN Append(columns, currentField)
    ELSE LET char == line[i] IN
         IF char = Q
         THEN IF inFieldQuotes /\ i + 1 <= Len(line) /\ line[i + 1] = Q
              THEN SplitFields(line, i + 2, Append(currentField, Q), inFieldQuotes, columns)
              ELSE SplitFields(line, i + 1, currentField, ~inFieldQuotes, columns)
         ELSE IF char = "," /\ ~inFieldQuotes
              THEN SplitFields(line, i + 1, <<>>, inFieldQuotes, Append(columns, currentField))
              ELSE SplitFields(line, i + 1, Append(currentField, char), inFieldQuotes, columns)

\* lines 52-59: a row object, keyed by the header's columns; a repeated header
\* name keeps the value of its last column, a missing column reads ''
RowObject(headerColumns, recordFields) ==
    [h \in Range(headerColumns) |->
        LET i == CHOOSE k \in 1..Len(headerColumns) :
                    /\ headerColumns[k] = h
                    /\ \A m \in 1..Len(headerColumns) : headerColumns[m] = h => m <= k
        IN  Trim(IF i <= Len(recordFields) THEN recordFields[i] ELSE Empty)]

ParseCSV(t) ==
    LET lines == SplitLines(t, 1, <<>>, FALSE, <<>>)
        parsedRows == [k \in 1..Len(lines) |-> SplitFields(lines[k], 1, <<>>, FALSE, <<>>)]
        headerColumns == IF Len(parsedRows) > 0 THEN parsedRows[1] ELSE <<>>
    IN  [k \in 1..(IF Len(parsedRows) > 0 THEN Len(parsedRows) - 1 ELSE 0) |->
            RowObject(headerColumns, parsedRows[k + 1])]

\* the header line of the texts the parser is run on: x,y,z
HeaderLine == <<"x", ",", "y", ",", "z">>
CsvAlphabet == {"a", ",", Q, NL}
CsvBodies == SeqsUpTo(CsvAlphabet, MaxBody)

CsvInit ==
    /\ pc = "start"
    /\ text \in {HeaderLine \o <<NL>> \o body : body \in CsvBodies}
    /\ objects = <<>>
    /\ shapes = <<>> /\ shapeMap = <<>>
    /\ routes = <<>> /\ routeColor = <<>>
    /\ memo = <<>> /\ stopToRouteNames = <<>> /\ stopToRouteIds = <<>>
    /\ selectedRoute = <<>> /\ routeSearch = <<>> /\ wheelchairOnly = FALSE
    /\ stopMetaFilter = <<>> /\ hdPolyline = <<>> /\ latest = <<>> /\ stale = <<>>
    /\ polylines = {} /\ markers = {} /\ markersAlt = {}
    /\ options = <<>> /\ layers = <<>> /\ layersAlt = <<>>
    /\ stopPoints = <<>> /\ gridSizePx = <<>> /\ view = <<>> /\ clusters = <<>> /\ handlers = <<>> /\ lastPass = <<>>
    /\ stopRows = <<>> /\ tripRows = <<>> /\ shapeToRoute = <<>> /\ routeWheelchair = <<>>
    /\ relationId = 0 /\ ways = <<>> /\ error = <<>> /\ relLatest = <<>> /\ relStale = <<>> /\ relShown = <<>>

Parse ==
    /\ pc = "start"
    /\ objects' = ParseCSV(text)
    /\ pc' = "done"
    /\ UNCHANGED <<text, shapeVars, routeVars, joinVars, filterVars, fetchVars, viewVars, gridVars, tableVars, relVars>>

(***************************************************************************)
(* Claims about parseCSV                                                   *)
(***************************************************************************)
PlainFields == SeqsUpTo({"a"}, MaxBody)
CommaFields == {m \in SeqsUpTo({"a", ","}, MaxBody) : "," \in Range(m)}
QuotedBodies == SeqsUpTo({"a", ",", NL}, MaxBody - 4)
Quoted(s) == <<Q>> \o s \o <<Q>>
CsvText(body) == HeaderLine \o <<NL>> \o body
ColX == <<"x">>
ColY == <<"y">>
ColZ == <<"z">>

\* C6: a comma between an opening quote and its closing quote does not separate
\* fields: the record  "mid",post  (mid holding commas) gives one row whose
\* column x is mid, commas included, and whose column y is post; the record
\* pre,"mid",post  gives x = pre, y = mid, z = post.
C6_QuotedCommaStaysInField ==
    pc = "done" =>
        \A mid \in CommaFields, post \in PlainFields, pre \in PlainFields :
            /\ text = CsvText(Quoted(mid) \o <<",">> \o post)
                 => /\ Len(objects) = 1
                    /\ objects[1][ColX] = mid
                    /\ objects[1][ColY] = post
            /\ text = CsvText(pre \o <<",">> \o Quoted(mid) \o <<",">> \o post)
                 => /\ Len(objects) = 1
                    /\ objects[1][ColX] = pre
                    /\ objects[1][ColY] = mid
                    /\ objects[1][ColZ] = post

\* C7: a doubled quote inside a quoted field is one literal quote: the record
\* "u""v"  gives one row whose column x is u, one quote character, v (the
\* delimiters and newlines of u and v included), trimmed.
C7_DoubledQuoteIsLiteral ==
    pc = "done" =>
        \A u \in QuotedBodies, v \in QuotedBodies :
            text = CsvText(Quoted(u \o <<Q, Q>> \o v))
                => /\ Len(objects) = 1
                   /\ objects[1][ColX] = Trim(u \o <<Q>> \o v)

(***************************************************************************)
(* Numbers and optional strings of the feed rows                           *)
(***************************************************************************)
\* a JavaScript number: an integer of the model, or NaN
Num(n) == [nan |-> FALSE, inf |-> FALSE, n |-> n]
NaN == [nan |-> TRUE, inf |-> FALSE, n |-> 0]
Infinity == [nan |-> FALSE, inf |-> TRUE, n |-> 0]

\* a < b and a <= b on such numbers: false when either side is NaN
JsLt(a, b) == ~a.nan /\ ~b.nan /\ ~a.inf /\ (b.inf \/ a.n < b.n)
JsLeq(a, b) == ~a.nan /\ ~b.nan /\ (b.inf \/ (~a.inf /\ a.n <= b.n))

\* a field the row object does not have (the header lacks the column)
Undefined == <<"undefined">>

\* a string operand of || or of if (...): undefined and '' are falsy
Falsy(s) == s = Undefined \/ s = Empty

Digits == {"0", "1", "2", "3", "4", "5", "6", "7", "8", "9"}

DigitVal(c) ==
    CASE c = "0" -> 0 [] c = "1" -> 1 [] c = "2" -> 2 [] c = "3" -> 3
      [] c = "4" -> 4 [] c = "5" -> 5 [] c = "6" -> 6 [] c = "7" -> 7
      [] c = "8" -> 8 [] c = "9" -> 9

\* the value of the longest prefix of digits of s from position i on
RECURSIVE DigitsValue(_, _, _)
DigitsValue(s, i, acc) ==
    IF i <= Len(s) /\ s[i] \in Digits
    THEN DigitsValue(s, i + 1, 10 * acc + DigitVal(s[i]))
    ELSE acc

\* parseInt(s, 10): leading white space skipped, an optional sign, the longest
\* prefix of digits; NaN when there is no digit
ParseInt(s) ==
    LET t == TrimLeft(s)
        neg == Len(t) > 0 /\ t[1] = "-"
        u == IF Len(t) > 0 /\ t[1] \in {"-", "+"} THEN Tail(t) ELSE t
    IN  IF Len(u) = 0 \/ u[1] \notin Digits THEN NaN
        ELSE Num(IF neg THEN 0 - DigitsValue(u, 1, 0) ELSE DigitsValue(u, 1, 0))

InfinityText == <<"I", "n", "f", "i", "n", "i", "t", "y">>

\* parseFloat(s), on strings without decimal point or exponent: leading white
\* space and a "+" skipped, then Infinity or a whole number ("-Infinity" is not
\* among the texts of the model)
ParseFloat(s) ==
    IF s = Undefined THEN NaN
    ELSE LET t == TrimLeft(s)
             u == IF Len(t) > 0 /\ t[1] = "+" THEN Tail(t) ELSE t
         IN  IF StartsWith(u, InfinityText) THEN Infinity ELSE ParseInt(s)

(***************************************************************************)
(* A JavaScript Map: its entries [k, v] in insertion order                 *)
(***************************************************************************)
MapHas(m, k) == \E i \in 1..Len(m) : m[i].k = k
MapIndex(m, k) == CHOOSE i \in 1..Len(m) : m[i].k = k
MapGet(m, k) == m[MapIndex(m, k)].v
MapSet(m, k, v) ==
    IF MapHas(m, k)
    THEN [m EXCEPT ![MapIndex(m, k)] = [k |-> k, v |-> v]]
    ELSE Append(m, [k |-> k, v |-> v])
MapKeys(m) == {m[i].k : i \in 1..Len(m)}

(***************************************************************************)
(* shapeMap (Map.tsx lines 99-113)                                         *)
(***************************************************************************)

\* lines 101-108: the rows grouped by shape_id, in input order
RECURSIVE GroupShapes(_, _, _)
GroupShapes(rows, i, shapeGroups) ==
    IF i > Len(rows) THEN shapeGroups
    ELSE LET shapeRow == rows[i]
             shapeId == shapeRow.shape_id
             point == [lat |-> ParseFloat(shapeRow.shape_pt_lat),
                       lon |-> ParseFloat(shapeRow.shape_pt_lon),
                       seq |-> ParseInt(IF Falsy(shapeRow.shape_pt_sequence)
                                        THEN <<"0">>
                                        ELSE shapeRow.shape_pt_sequence)]
             old == IF MapHas(shapeGroups, shapeId) THEN MapGet(shapeGroups, shapeId) ELSE <<>>
         IN  GroupShapes(rows, i + 1, MapSet(shapeGroups, shapeId, Append(old, point)))

\* a.seq - b.seq <= 0, for numbers
SeqLeq(a, b) == a.seq.n <= b.seq.n

\* x put behind the last element that does not come after it
RECURSIVE InsertSorted(_, _)
InsertSorted(sorted, x) ==
    IF Len(sorted) = 0 \/ SeqLeq(sorted[Len(sorted)], x)
    THEN Append(sorted, x)
    ELSE Append(InsertSorted(SubSeq(sorted, 1, Len(sorted) - 1), x), sorted[Len(sorted)])

RECURSIVE StableSort(_, _, _)
StableSort(arr, i, acc) ==
    IF i > Len(arr) THEN acc ELSE StableSort(arr, i + 1, InsertSorted(acc, arr[i]))

Orderings(arr) ==
    {[i \in 1..Len(arr) |-> arr[p[i]]] :
        p \in {f \in [1..Len(arr) -> 1..Len(arr)] :
                  \A i, j \in 1..Len(arr) : f[i] = f[j] => i = j}}

\* line 110: pointsArray.sort((a, b) => a.seq - b.seq). The sort is stable. With
\* a NaN seq the comparator answers NaN, which sort reads as 0: it is not a
\* consistent comparator and the order is implementation-defined.
SortBySeq(arr) ==
    IF \E i \in 1..Len(arr) : arr[i].seq.nan
    THEN Orderings(arr)
    ELSE {StableSort(arr, 1, <<>>)}

\* the shape maps the computation may return
ShapeMaps(rows) ==
    LET shapeGroups == GroupShapes(rows, 1, <<>>)
        n == Len(shapeGroups)
        sorted == UNION {SortBySeq(shapeGroups[i].v) : i \in 1..n}
    IN  {[i \in 1..n |-> [k |-> shapeGroups[i].k, v |-> f[i]]] :
            f \in {g \in [1..n -> sorted] : \A i \in 1..n : g[i] \in SortBySeq(shapeGroups[i].v)}}

ShapeIds == {<<"s">>, <<"t">>}
SeqStrings == {Undefined, Empty, <<"0">>, <<"1">>, <<"2">>, <<"1", "0">>, <<"x">>}
RowDigit(k) == <<CHOOSE c \in Digits : DigitVal(c) = k>>

\* shapes.txt rows: row k has latitude k, which tells the rows apart
ShapeRowSeqs ==
    UNION {{[k \in 1..n |-> [shape_id |-> id[k], shape_pt_lat |-> RowDigit(k),
                              shape_pt_lon |-> <<"0">>, shape_pt_sequence |-> sq[k]]] :
               id \in [1..n -> ShapeIds], sq \in [1..n -> SeqStrings]} :
           n \in 0..MaxShapeRows}

ShapeInit ==
    /\ pc = "start"
    /\ shapes \in ShapeRowSeqs
    /\ shapeMap = <<>>
    /\ text = <<>> /\ objects = <<>>
    /\ routes = <<>> /\ routeColor = <<>>
    /\ memo = <<>> /\ stopToRouteNames = <<>> /\ stopToRouteIds = <<>>
    /\ selectedRoute = <<>> /\ routeSearch = <<>> /\ wheelchairOnly = FALSE
    /\ stopMetaFilter = <<>> /\ hdPolyline = <<>> /\ latest = <<>> /\ stale = <<>>
    /\ polylines = {} /\ markers = {} /\ markersAlt = {}
    /\ options = <<>> /\ layers = <<>> /\ layersAlt = <<>>
    /\ stopPoints = <<>> /\ gridSizePx = <<>> /\ view = <<>> /\ clusters = <<>> /\ handlers = <<>> /\ lastPass = <<>>
    /\ stopRows = <<>> /\ tripRows = <<>> /\ shapeToRoute = <<>> /\ routeWheelchair = <<>>
    /\ relationId = 0 /\ ways = <<>> /\ error = <<>> /\ relLatest = <<>> /\ relStale = <<>> /\ relShown = <<>>

BuildShapeMap ==
    /\ pc = "start"
    /\ shapeMap' \in ShapeMaps(shapes)
    /\ pc' = "done"
    /\ UNCHANGED <<shapes, csvVars, routeVars, joinVars, filterVars, fetchVars, viewVars, gridVars, tableVars, relVars>>

\* the rows of shape id, as indices into the input
RowsOf(id) == {k \in 1..Len(shapes) : shapes[k].shape_id = id}

\* parseInt finds no number in s
Unparsable(s) == LET t == TrimLeft(s) IN Len(t) = 0 \/ t[1] \notin (Digits \cup {"-", "+"})

\* C8: for each shape id the point list has one point per input row of that id,
\* its seq values are non-decreasing (rows of equal seq in input order), and a
\* row whose shape_pt_sequence is absent or unparsable has seq 0.
C8_ShapeGroupsSorted ==
    pc = "done" =>
        \A id \in ShapeIds :
            LET pts == IF MapHas(shapeMap, id) THEN MapGet(shapeMap, id) ELSE <<>> IN
            /\ Len(pts) = Cardinality(RowsOf(id))
            /\ \A i, j \in 1..Len(pts) :
                   i < j => /\ ~pts[i].seq.nan /\ ~pts[j].seq.nan
                            /\ pts[i].seq.n <= pts[j].seq.n
                            /\ (pts[i].seq.n = pts[j].seq.n => pts[i].lat.n < pts[j].lat.n)
            /\ \A k \in RowsOf(id) :
                   (shapes[k].shape_pt_sequence = Undefined \/ Unparsable(shapes[k].shape_pt_sequence))
                       => \E i \in 1..Len(pts) : pts[i].lat = Num(k) /\ pts[i].seq = Num(0)

(***************************************************************************)
(* routeColor and routeShortName (Map.tsx lines 130-149)                   *)
(***************************************************************************)
Hash == "#"

\* lines 134-135, without the prefixing: the colour stored as the row gives it
NormalizeColorAsGiven(c) == IF Falsy(c) THEN Empty ELSE c

\* lines 134-135: '' for a missing colour, else the colour with a leading '#'
NormalizeColor(c) ==
    LET color == IF Falsy(c) THEN Empty ELSE c
    IN  IF color # Empty /\ ~StartsWith(color, <<Hash>>) THEN <<Hash>> \o color ELSE color

\* lines 131-138
RECURSIVE RouteColorOf(_, _, _)
RouteColorOf(rows, i, routeColorMap) ==
    IF i > Len(rows) THEN routeColorMap
    ELSE LET routeRow == rows[i]
             id == routeRow.route_id
             color == NormalizeColor(routeRow.route_color)
         IN  RouteColorOf(rows, i + 1,
                 IF ~Falsy(id) THEN MapSet(routeColorMap, id, color) ELSE routeColorMap)

\* line 146: short name, else long name, else the id
DisplayName(r) ==
    IF ~Falsy(r.route_short_name) THEN r.route_short_name
    ELSE IF ~Falsy(r.route_long_name) THEN r.route_long_name
    ELSE r.route_id

\* lines 144-148
RECURSIVE RouteShortNameOf(_, _, _)
RouteShortNameOf(rows, i, m) ==
    IF i > Len(rows) THEN m
    ELSE LET r == rows[i]
         IN  RouteShortNameOf(rows, i + 1,
                 IF ~Falsy(r.route_id) THEN MapSet(m, r.route_id, DisplayName(r)) ELSE m)

\* line 329: the colour a polyline is drawn with
DefaultColor == <<Hash, "3", "3", "8", "8", "f", "f">>
PolylineColor(colorMap, routeId) ==
    IF ~Falsy(routeId) /\ MapHas(colorMap, routeId) /\ ~Falsy(MapGet(colorMap, routeId))
    THEN MapGet(colorMap, routeId)
    ELSE DefaultColor

RouteIdStrings == {Empty, <<"r">>, <<"q">>}
ColorStrings == {Undefined, Empty, <<Hash, "f">>, <<"f">>}
NameStrings == {<<Empty, Empty>>, <<<<"a">>, Empty>>, <<Empty, <<"b">>>>}

RouteRows ==
    {[route_id |-> id, route_short_name |-> nm[1], route_long_name |-> nm[2], route_color |-> c] :
        id \in RouteIdStrings, nm \in NameStrings, c \in ColorStrings}

RouteRowSeqs == UNION {[1..n -> RouteRows] : n \in 0..MaxRouteRows}

RouteInit ==
    /\ pc = "start"
    /\ routes \in RouteRowSeqs
    /\ routeColor = <<>>
    /\ text = <<>> /\ objects = <<>>
    /\ shapes = <<>> /\ shapeMap = <<>>
    /\ memo = <<>> /\ stopToRouteNames = <<>> /\ stopToRouteIds = <<>>
    /\ selectedRoute = <<>> /\ routeSearch = <<>> /\ wheelchairOnly = FALSE
    /\ stopMetaFilter = <<>> /\ hdPolyline = <<>> /\ latest = <<>> /\ stale = <<>>
    /\ polylines = {} /\ markers = {} /\ markersAlt = {}
    /\ options = <<>> /\ layers = <<>> /\ layersAlt = <<>>
    /\ stopPoints = <<>> /\ gridSizePx = <<>> /\ view = <<>> /\ clusters = <<>> /\ handlers = <<>> /\ lastPass = <<>>
    /\ stopRows = <<>> /\ tripRows = <<>> /\ shapeToRoute = <<>> /\ routeWheelchair = <<>>
    /\ relationId = 0 /\ ways = <<>> /\ error = <<>> /\ relLatest = <<>> /\ relStale = <<>> /\ relShown = <<>>

BuildRouteColor ==
    /\ pc = "start"
    /\ routeColor' = RouteColorOf(routes, 1, <<>>)
    /\ pc' = "done"
    /\ UNCHANGED <<routes, csvVars, shapeVars, joinVars, filterVars, fetchVars, viewVars, gridVars, tableVars, relVars>>

\* the last row of routes.txt that carries route id
LastRowOf(id) == CHOOSE k \in 1..Len(routes) :
                    routes[k].route_id = id /\ \A m \in 1..Len(routes) : routes[m].route_id = id => m <= k

thresholdMeters == 80

Square(x) == x * x

\* lines 166-186, squared: NaN as soon as one coordinate is NaN
PointToSegmentDistance(p, v, w) ==
    IF p.lat.nan \/ p.lon.nan \/ v.lat.nan \/ v.lon.nan \/ w.lat.nan \/ w.lon.nan
    THEN NaN
    ELSE LET px == p.lon.n - v.lon.n
             py == p.lat.n - v.lat.n
             wx == w.lon.n - v.lon.n
             wy == w.lat.n - v.lat.n
             l2 == wx * wx + wy * wy
             dot == px * wx + py * wy
             \* t = max(0, min(1, dot / l2)), and 0 when l2 = 0
             projx == IF l2 = 0 \/ dot <= 0 THEN 0 ELSE IF dot >= l2 THEN wx ELSE (dot * wx) \div l2
             projy == IF l2 = 0 \/ dot <= 0 THEN 0 ELSE IF dot >= l2 THEN wy ELSE (dot * wy) \div l2
             dx == px - projx
             dy == py - projy
         IN  Num(dx * dx + dy * dy)

\* lines 153-161, squared and in the planar frame: the distance of two points
Haversine(a, b) ==
    IF a.lat.nan \/ a.lon.nan \/ b.lat.nan \/ b.lon.nan
    THEN NaN
    ELSE Num(Square(a.lat.n - b.lat.n) + Square(a.lon.n - b.lon.n))

\* lines 202-211: the loop over the consecutive segments
RECURSIVE SegmentsMin(_, _, _, _)
SegmentsMin(stop, points, i, minDistance) ==
    IF i > Len(points) - 1 THEN minDistance
    ELSE LET distance == PointToSegmentDistance(stop, points[i], points[i + 1])
         IN  SegmentsMin(stop, points, i + 1,
                         IF JsLt(distance, minDistance) THEN distance ELSE minDistance)

\* lines 201-215
MinDistance(stop, points) ==
    LET overSegments == SegmentsMin(stop, points, 1, Infinity)
    IN  IF Len(points) = 1 /\ JsLt(Haversine(stop, points[1]), overSegments)
        THEN Haversine(stop, points[1])
        ELSE overSegments

\* line 216 with < for <=
WithinThresholdExclusive(minDistance) == JsLt(minDistance, Num(Square(thresholdMeters)))

\* line 216: minDistance <= thresholdMeters
WithinThreshold(minDistance) == JsLeq(minDistance, Num(Square(thresholdMeters)))

\* Set.prototype.add, the set kept as the array Array.from makes of it
SetAdd(arr, x) == IF x \in Range(arr) THEN arr ELSE Append(arr, x)

MapGetOr(m, k, default) == IF MapHas(m, k) THEN MapGet(m, k) ELSE default

\* lines 200-222: the stops against one shape of route routeId
RECURSIVE JoinStops(_, _, _, _, _, _)
JoinStops(stops, j, points, routeId, routeName, acc) ==
    IF j > Len(stops) THEN acc
    ELSE LET stop == stops[j]
         IN  JoinStops(stops, j + 1, points, routeId, routeName,
                 IF WithinThreshold(MinDistance(stop, points))
                 THEN [mapRes |-> MapSet(acc.mapRes, stop.id,
                                         SetAdd(MapGetOr(acc.mapRes, stop.id, <<>>), routeName)),
                       mapResIds |-> MapSet(acc.mapResIds, stop.id,
                                            SetAdd(MapGetOr(acc.mapResIds, stop.id, <<>>), routeId))]
                 ELSE acc)

\* lines 196-223: the shapes in the order of shapeMap
RECURSIVE JoinShapes(_, _, _)
JoinShapes(m, i, acc) ==
    IF i > Len(m.shapeMap) THEN acc
    ELSE LET shapeId == m.shapeMap[i].k
             points == m.shapeMap[i].v
             routeId == MapGetOr(m.shapeToRoute, shapeId, Undefined)
             routeName == IF MapHas(m.routeShortName, routeId) /\ ~Falsy(MapGet(m.routeShortName, routeId))
                          THEN MapGet(m.routeShortName, routeId)
                          ELSE routeId
         IN  JoinShapes(m, i + 1,
                 IF Falsy(routeId) THEN acc
                 ELSE JoinStops(m.stopPoints, 1, points, routeId, routeName, acc))

\* lines 192-236: the two maps of the join
StopToRoute(m) == JoinShapes(m, 1, [mapRes |-> <<>>, mapResIds |-> <<>>])

Pt(x, y) == [lat |-> Num(y), lon |-> Num(x), seq |-> Num(0)]
NaNPoint == [lat |-> NaN, lon |-> Num(0), seq |-> Num(0)]
StopAt(id, x, y) ==
    [id |-> id, name |-> <<"n">>, lat |-> Num(y), lon |-> Num(x),
     location_type |-> Empty, parent_station |-> Empty, wheelchair_boarding |-> Empty]

\* the corners the varied shape runs through, and a point that did not parse
ShapeCorners == {Pt(0, 0), Pt(100, 0), Pt(100, 100), NaNPoint}
\* where the first stop stands: 80 m and 81 m off a segment, 80 m and a little
\* more off a corner, and far away
StopSpots == {<<50, 80>>, <<50, 81>>, <<148, 64>>, <<149, 64>>, <<180, 100>>, <<300, 300>>}
StopIds == {<<"u">>, <<"v">>}
RouteIds == {<<"r">>, <<"q">>}

AxisParallel(a, b) ==
    a.lat.nan \/ a.lon.nan \/ b.lat.nan \/ b.lon.nan \/ a.lat = b.lat \/ a.lon = b.lon

VariedShapes ==
    {ps \in UNION {[1..n -> ShapeCorners] : n \in 1..MaxShapePoints} :
        \A i \in 1..(Len(ps) - 1) : AxisParallel(ps[i], ps[i + 1])}
OtherShapes == {<<>>, <<Pt(100, 100)>>, <<Pt(0, 0), Pt(100, 0)>>}

JoinInputs ==
    {[stopPoints |-> <<StopAt(<<"u">>, spot[1], spot[2]), StopAt(id2, 50, 0)>>,
      shapeMap |-> <<[k |-> <<"s">>, v |-> ps]>>
                   \o (IF pt = <<>> THEN <<>> ELSE <<[k |-> <<"t">>, v |-> pt]>>),
      shapeToRoute |-> (IF rs = Empty THEN <<>> ELSE <<[k |-> <<"s">>, v |-> rs]>>)
                       \o <<[k |-> <<"t">>, v |-> rt]>>,
      routeShortName |-> <<[k |-> <<"r">>, v |-> <<"a">>]>>
                         \o (IF named THEN <<[k |-> <<"q">>, v |-> <<"a">>]>> ELSE <<>>)] :
        spot \in StopSpots, id2 \in StopIds, ps \in VariedShapes, pt \in OtherShapes,
        rs \in {Empty, <<"r">>}, rt \in RouteIds, named \in BOOLEAN}

JoinInit ==
    /\ pc = "start"
    /\ memo \in JoinInputs
    /\ stopToRouteNames = <<>>
    /\ stopToRouteIds = <<>>
    /\ text = <<>> /\ objects = <<>>
    /\ shapes = <<>> /\ shapeMap = <<>>
    /\ routes = <<>> /\ routeColor = <<>>
    /\ selectedRoute = <<>> /\ routeSearch = <<>> /\ wheelchairOnly = FALSE
    /\ stopMetaFilter = <<>> /\ hdPolyline = <<>> /\ latest = <<>> /\ stale = <<>>
    /\ polylines = {} /\ markers = {} /\ markersAlt = {}
    /\ options = <<>> /\ layers = <<>> /\ layersAlt = <<>>
    /\ stopPoints = <<>> /\ gridSizePx = <<>> /\ view = <<>> /\ clusters = <<>> /\ handlers = <<>> /\ lastPass = <<>>
    /\ stopRows = <<>> /\ tripRows = <<>> /\ shapeToRoute = <<>> /\ routeWheelchair = <<>>
    /\ relationId = 0 /\ ways = <<>> /\ error = <<>> /\ relLatest = <<>> /\ relStale = <<>> /\ relShown = <<>>

Join ==
    /\ pc = "start"
    /\ stopToRouteNames' = StopToRoute(memo).mapRes
    /\ stopToRouteIds' = StopToRoute(memo).mapResIds
    /\ pc' = "done"
    /\ UNCHANGED <<memo, csvVars, shapeVars, routeVars, filterVars, fetchVars, viewVars, gridVars, tableVars, relVars>>

(***************************************************************************)
(* Claims about the join                                                   *)
(***************************************************************************)
Min(a, b) == IF a <= b THEN a ELSE b
Max(a, b) == IF a <= b THEN b ELSE a

\* the lattice points of the axis-parallel segment from v to w
OnSegment(v, w) ==
    {[lat |-> y, lon |-> x] :
        x \in Min(v.lon.n, w.lon.n)..Max(v.lon.n, w.lon.n),
        y \in Min(v.lat.n, w.lat.n)..Max(v.lat.n, w.lat.n)}

Finite(pt) == ~pt.lat.nan /\ ~pt.lon.nan

\* some point of the shape's path (of its finite segments; the point itself for a
\* one-point shape) is at most 80 m from the stop
Near(stop, points) ==
    \/ /\ Len(points) = 1 /\ Finite(points[1])
       /\ Square(stop.lat.n - points[1].lat.n) + Square(stop.lon.n - points[1].lon.n) <= 80 * 80
    \/ \E i \in 1..(Len(points) - 1) :
          /\ Finite(points[i]) /\ Finite(points[i + 1])
          /\ \E q \in OnSegment(points[i], points[i + 1]) :
                 Square(stop.lat.n - q.lat) + Square(stop.lon.n - q.lon) <= 80 * 80

RoutedShapes == {i \in 1..Len(memo.shapeMap) : MapHas(memo.shapeToRoute, memo.shapeMap[i].k)}
RouteOfShape(i) == MapGet(memo.shapeToRoute, memo.shapeMap[i].k)
NameOfRoute(r) == IF MapHas(memo.routeShortName, r) THEN MapGet(memo.routeShortName, r) ELSE r
IdsOf(stopId) == Range(MapGetOr(stopToRouteIds, stopId, <<>>))
NamesOf(stopId) == Range(MapGetOr(stopToRouteNames, stopId, <<>>))

\* C10 as stated: for every stop and every shape that has a route, the stop is
\* associated with that route iff the stop is at most 80 m from that shape; the
\* id map and the name map have the same stop keys.
C10_AssociatedIffNearTheShape ==
    pc = "done" =>
        /\ MapKeys(stopToRouteNames) = MapKeys(stopToRouteIds)
        /\ \A j \in 1..Len(memo.stopPoints), i \in RoutedShapes :
               RouteOfShape(i) \in IdsOf(memo.stopPoints[j].id)
                   <=> Near(memo.stopPoints[j], memo.shapeMap[i].v)

\* C10 as amended: a stop id is associated with a route id iff a stop point of
\* that id is at most 80 m (inclusive) from at least one shape of that route; its
\* name list holds the display names of exactly the routes of its id list, an
\* associated stop has both lists non-empty, and the two maps have the same keys.
C10_AssociatedIffNearSomeShape ==
    pc = "done" =>
        /\ MapKeys(stopToRouteNames) = MapKeys(stopToRouteIds)
        /\ \A k \in MapKeys(stopToRouteIds) : IdsOf(k) # {}
        /\ \A k \in StopIds :
               /\ \A r \in RouteIds :
                      r \in IdsOf(k)
                          <=> \E j \in 1..Len(memo.stopPoints), i \in RoutedShapes :
                                 /\ memo.stopPoints[j].id = k
                                 /\ RouteOfShape(i) = r
                                 /\ Near(memo.stopPoints[j], memo.shapeMap[i].v)
               /\ IdsOf(k) \subseteq RouteIds
               /\ NamesOf(k) = {NameOfRoute(r) : r \in IdsOf(k)}

\* C10's case: a stop exactly 80 m from a shape is associated with its route,
\* and a second shape of that route is far from the stop
C10_Witness ==
    /\ pc = "done"
    /\ memo.stopPoints[1].lat = Num(80) /\ memo.stopPoints[1].lon = Num(50)
    /\ memo.stopPoints[2].id = <<"v">>
    /\ memo.shapeMap[1].v = <<Pt(0, 0), Pt(100, 0)>>
    /\ Len(memo.shapeMap) = 2 /\ memo.shapeMap[2].v = <<Pt(100, 100)>>
    /\ MapGetOr(memo.shapeToRoute, <<"s">>, Empty) = <<"r">>
    /\ MapGet(memo.shapeToRoute, <<"t">>) = <<"r">>
    /\ IdsOf(<<"u">>) = {<<"r">>}
    /\ NamesOf(<<"u">>) = {<<"a">>}

(***************************************************************************)
(* The map component (src/src/components/Map.tsx): the tables derived from *)
(* trips.txt, the filter state, the route-selection effect and its         *)
(* routing request, and what a render draws                                *)
(***************************************************************************)
\* the map in which a later trip row replaces the route of its shape
RECURSIVE ShapeToRouteLastWins(_, _, _)
ShapeToRouteLastWins(trips, i, shapeToRouteMap) ==
    IF i > Len(trips) THEN shapeToRouteMap
    ELSE ShapeToRouteLastWins(trips, i + 1,
             IF ~Falsy(trips[i].shape_id) /\ ~Falsy(trips[i].route_id)
             THEN MapSet(shapeToRouteMap, trips[i].shape_id, trips[i].route_id)
             ELSE shapeToRouteMap)

\* the map in which every route with a trip is entered, true or false
RECURSIVE RouteWheelchairEveryRoute(_, _, _)
RouteWheelchairEveryRoute(trips, i, accessible) ==
    IF i > Len(trips) THEN accessible
    ELSE RouteWheelchairEveryRoute(trips, i + 1,
             IF Falsy(trips[i].route_id) THEN accessible
             ELSE MapSet(accessible, trips[i].route_id,
                         trips[i].wheelchair_accessible = <<"1">>
                             \/ (MapHas(accessible, trips[i].route_id)
                                 /\ MapGet(accessible, trips[i].route_id))))

\* lines 117-125: the first route met for each shape
RECURSIVE ShapeToRouteOf(_, _, _)
ShapeToRouteOf(trips, i, shapeToRouteMap) ==
    IF i > Len(trips) THEN shapeToRouteMap
    ELSE LET shapeId == trips[i].shape_id
             routeId == trips[i].route_id
         IN  ShapeToRouteOf(trips, i + 1,
                 IF ~Falsy(shapeId) /\ ~Falsy(routeId) /\ ~MapHas(shapeToRouteMap, shapeId)
                 THEN MapSet(shapeToRouteMap, shapeId, routeId)
                 ELSE shapeToRouteMap)

\* lines 241-252: the routes with a trip whose wheelchair_accessible trims to '1'
RECURSIVE RouteWheelchairOf(_, _, _)
RouteWheelchairOf(trips, i, accessible) ==
    IF i > Len(trips) THEN accessible
    ELSE LET routeId == trips[i].route_id
             value == Trim(IF Falsy(trips[i].wheelchair_accessible) THEN Empty
                           ELSE trips[i].wheelchair_accessible)
         IN  RouteWheelchairOf(trips, i + 1,
                 IF ~Falsy(routeId) /\ value = <<"1">>
                 THEN MapSet(accessible, routeId, TRUE)
                 ELSE accessible)

\* line 258: useState(null), kept as the empty path, which line 62 never returns
Null == <<>>
\* line 327
Coords(points) == [p \in 1..Len(points) |-> <<points[p].lat, points[p].lon>>]
\* a vertex of the road network, off every shape of the feed
Road == <<Num(1), Num(1)>>
\* lines 59-62: the path the routing service returns for the waypoints sent,
\* [lon, lat] swapped to [lat, lon]: the road through the waypoints
Geometry(points) == <<Road>> \o Coords(points)
\* no request left behind by the last run of the effect
NoRequest == [route |-> Empty, shape |-> Empty, state |-> "none"]

\* lines 290-294, as a set: the names the select can offer
AllRouteNames(m) == {m.routeShortName[i].v : i \in 1..Len(m.routeShortName)}

\* line 310: the options under the current search text, and line 309
Options(m, search) ==
    {Empty} \cup {n \in AllRouteNames(m) :
                    IF ~Falsy(search) THEN ToLowerCase(n) = ToLowerCase(search) ELSE TRUE}

\* String.prototype.localeCompare on the model's alphabet: the letters decide
\* first, whatever their case, a prefix before the longer text; between texts
\* with the same letters the first difference of case decides, lower case first
PrimaryWeight(c) ==
    CASE LowerChar(c) = "a" -> 1
      [] LowerChar(c) = "b" -> 2
      [] OTHER              -> 3

CaseWeight(c) == IF LowerChar(c) = c THEN 0 ELSE 1

CollationWeight(level, c) == IF level = 1 THEN PrimaryWeight(c) ELSE CaseWeight(c)

RECURSIVE CompareWeights(_, _, _, _)
CompareWeights(level, a, b, i) ==
    IF i > Len(a) /\ i > Len(b) THEN 0
    ELSE IF i > Len(a) THEN -1
    ELSE IF i > Len(b) THEN 1
    ELSE IF CollationWeight(level, a[i]) < CollationWeight(level, b[i]) THEN -1
    ELSE IF CollationWeight(level, a[i]) > CollationWeight(level, b[i]) THEN 1
    ELSE CompareWeights(level, a, b, i + 1)

LocaleCompare(a, b) ==
    LET primary == CompareWeights(1, a, b, 1)
    IN  IF primary # 0 THEN primary ELSE CompareWeights(2, a, b, 1)

\* lines 291-292: the names of the routes in a Set, which keeps the first
\* occurrence of each in the order of insertion
RECURSIVE SetNames(_, _, _)
SetNames(m, i, acc) ==
    IF i > Len(m.routeShortName) THEN acc
    ELSE LET name == m.routeShortName[i].v
         IN  SetNames(m, i + 1, IF name \in Range(acc) THEN acc ELSE Append(acc, name))

\* Array.prototype.sort with a comparator: stable, by insertion
RECURSIVE InsertName(_, _, _)
InsertName(sorted, name, i) ==
    IF i > Len(sorted) THEN Append(sorted, name)
    ELSE IF LocaleCompare(name, sorted[i]) < 0
         THEN SubSeq(sorted, 1, i - 1) \o <<name>> \o SubSeq(sorted, i, Len(sorted))
         ELSE InsertName(sorted, name, i + 1)

RECURSIVE SortNames(_, _, _)
SortNames(names, i, acc) ==
    IF i > Len(names) THEN acc
    ELSE SortNames(names, i + 1, InsertName(acc, names[i], 1))

\* lines 290-294: allRouteNames, the array
AllRouteNamesSorted(m) == SortNames(SetNames(m, 1, <<>>), 1, <<>>)

\* lines 309-312: the values of the options of the select, in document order
OptionList(m, search) ==
    LET Kept(n) == IF ~Falsy(search) THEN ToLowerCase(n) = ToLowerCase(search) ELSE TRUE
    IN  <<Empty>> \o SelectSeq(AllRouteNamesSorted(m), Kept)

\* lines 268-275: the first shape, in the order of shapeToRoute, of the selected route
RECURSIVE TargetShapeId(_, _, _)
TargetShapeId(m, i, sel) ==
    IF i > Len(m.shapeToRoute) THEN Empty
    ELSE IF MapGetOr(m.routeShortName, m.shapeToRoute[i].v, Undefined) = sel
         THEN m.shapeToRoute[i].k
         ELSE TargetShapeId(m, i + 1, sel)

\* lines 263-285 with line 43: the request a run of the effect leaves behind
IssuedRequest(m, sel) ==
    LET targetShapeId == TargetShapeId(m, 1, sel)
    IN  IF Falsy(sel) THEN NoRequest
        ELSE IF Falsy(targetShapeId) \/ ~MapHas(m.shapeMap, targetShapeId) THEN NoRequest
        ELSE IF Len(MapGet(m.shapeMap, targetShapeId)) < 2
             THEN [route |-> sel, shape |-> targetShapeId, state |-> "null"]
             ELSE [route |-> sel, shape |-> targetShapeId, state |-> "pending"]

\* line 338: the search text against the name of a line
RouteSearchMatchesLine(name, search) ==
    ToLowerCase(IF Falsy(name) THEN Empty ELSE name) = ToLowerCase(search)

\* lines 335-340
MatchesRouteNameFilter(name, sel, search) ==
    IF ~Falsy(sel) /\ name # sel THEN FALSE
    ELSE IF ~Falsy(search) /\ ~RouteSearchMatchesLine(name, search) THEN FALSE
    ELSE TRUE

\* lines 347-351
HasAccessibleStopOnRoute(m, idsMap, routeId) ==
    \E j \in 1..Len(m.stopPoints) :
        /\ m.stopPoints[j].wheelchair_boarding = <<"1">>
        /\ routeId \in Range(MapGetOr(idsMap, m.stopPoints[j].id, <<>>))

\* lines 328-331: the route of a shape and the trimmed name of that route
RouteIdOfShape(m, shapeId) == MapGetOr(m.shapeToRoute, shapeId, Undefined)
RouteNameOfShape(m, shapeId) ==
    LET routeId == RouteIdOfShape(m, shapeId)
        routeNameRaw == IF ~Falsy(routeId) THEN MapGetOr(m.routeShortName, routeId, Undefined)
                        ELSE routeId
    IN  IF routeNameRaw # Undefined THEN Trim(routeNameRaw) ELSE routeNameRaw

\* lines 326-354: whether the render keeps the polyline of a shape
PolylineShown(m, idsMap, i, sel, search, wc) ==
    LET shapeId == m.shapeMap[i].k
        routeId == RouteIdOfShape(m, shapeId)
    IN  /\ Len(m.shapeMap[i].v) # 0
        /\ MatchesRouteNameFilter(RouteNameOfShape(m, shapeId), sel, search)
        /\ IF wc /\ ~Falsy(routeId)
           THEN \/ MapHas(m.routeWheelchair, routeId) /\ MapGet(m.routeWheelchair, routeId)
                \/ HasAccessibleStopOnRoute(m, idsMap, routeId)
           ELSE TRUE

\* lines 325-376: the polylines of a render
Polylines(m, idsMap, sel, search, wc, hd) ==
    {[shapeId |-> m.shapeMap[i].k,
      positions |-> IF ~Falsy(sel) /\ RouteNameOfShape(m, m.shapeMap[i].k) = sel /\ hd # Null
                    THEN hd ELSE Coords(m.shapeMap[i].v),
      color |-> PolylineColor(m.routeColor, RouteIdOfShape(m, m.shapeMap[i].k)),
      weight |-> IF ~Falsy(sel) /\ RouteNameOfShape(m, m.shapeMap[i].k) = sel THEN 5 ELSE 3] :
        i \in {i \in 1..Len(m.shapeMap) : PolylineShown(m, idsMap, i, sel, search, wc)}}

(***************************************************************************)
(* The stop layer: src/src/components/StopClusters.tsx lines 110-209 and   *)
(* the second copy of the component in src/unnamed/part_001                *)
(***************************************************************************)
\* the same test without the lowering of the fields
MatchesStopMetaCaseSensitive(stop, meta) ==
    IF Falsy(meta) THEN TRUE
    ELSE LET query == ToLowerCase(meta)
             metaFields == {f \in {stop.name, stop.id, stop.parent_station,
                                   stop.location_type} : ~Falsy(f)}
         IN  \E field \in metaFields : Includes(field, query)

\* StopClusters.tsx lines 140-149
MatchesStopMeta(stop, meta) ==
    IF Falsy(meta) THEN TRUE
    ELSE LET query == ToLowerCase(meta)
             metaFields == {ToLowerCase(val) :
                              val \in {f \in {stop.name, stop.id, stop.parent_station,
                                              stop.location_type} : ~Falsy(f)}}
         IN  \E field \in metaFields : Includes(field, query)

\* part_001 lines 28-37
MatchesStopMetaAlt(s, meta) ==
    IF Falsy(meta) THEN TRUE
    ELSE LET q == ToLowerCase(meta)
         IN  \/ ~Falsy(s.name) /\ Includes(ToLowerCase(s.name), q)
             \/ ~Falsy(s.id) /\ Includes(ToLowerCase(s.id), q)
             \/ ~Falsy(s.parent_station) /\ Includes(ToLowerCase(s.parent_station), q)
             \/ ~Falsy(s.location_type) /\ Includes(ToLowerCase(s.location_type), q)

\* StopClusters.tsx line 160: the search text against one route name of a stop
RouteSearchMatchesStop(name, search) == ToLowerCase(name) = ToLowerCase(search)

\* part_001 lines 47-48
RouteSearchMatchesStopAlt(n, search) == Includes(ToLowerCase(n), ToLowerCase(search))

\* StopClusters.tsx line 169 and part_001 line 52
RouteAccessible(m, routeIds) ==
    \E routeId \in Range(routeIds) :
        MapHas(m.routeWheelchair, routeId) /\ MapGet(m.routeWheelchair, routeId)

\* StopClusters.tsx lines 151-173
MatchesRouteFilters(m, namesMap, idsMap, stop, sel, search, wc) ==
    LET routeNames == MapGetOr(namesMap, stop.id, <<>>)
        routeIds == MapGetOr(idsMap, stop.id, <<>>)
        matchesRouteName ==
            IF ~Falsy(sel) /\ sel \notin Range(routeNames) THEN FALSE
            ELSE IF ~Falsy(search)
                    /\ ~\E name \in Range(routeNames) : RouteSearchMatchesStop(name, search)
                 THEN FALSE
            ELSE TRUE
    IN  IF ~matchesRouteName THEN FALSE
        ELSE IF wc /\ stop.wheelchair_boarding # <<"1">> /\ ~RouteAccessible(m, routeIds)
             THEN FALSE
        ELSE TRUE

\* part_001 lines 39-56
MatchesRouteFiltersAlt(m, namesMap, idsMap, s, sel, search, wc) ==
    LET names == MapGetOr(namesMap, s.id, <<>>)
        ids == MapGetOr(idsMap, s.id, <<>>)
    IN  IF ~Falsy(sel) /\ ~\E n \in Range(names) : n = sel THEN FALSE
        ELSE IF ~Falsy(search) /\ ~\E n \in Range(names) : RouteSearchMatchesStopAlt(n, search)
             THEN FALSE
        ELSE IF wc /\ s.wheelchair_boarding # <<"1">> /\ ~RouteAccessible(m, ids)
             THEN FALSE
        ELSE TRUE

\* StopClusters.tsx lines 175-195: the stops, by position in stopPoints, with a marker
Markers(m, namesMap, idsMap, sel, search, wc, meta) ==
    {j \in 1..Len(m.stopPoints) :
        /\ MatchesStopMeta(m.stopPoints[j], meta)
        /\ MatchesRouteFilters(m, namesMap, idsMap, m.stopPoints[j], sel, search, wc)}

\* part_001 lines 58-75
MarkersAlt(m, namesMap, idsMap, sel, search, wc, meta) ==
    {j \in 1..Len(m.stopPoints) :
        /\ MatchesStopMetaAlt(m.stopPoints[j], meta)
        /\ MatchesRouteFiltersAlt(m, namesMap, idsMap, m.stopPoints[j], sel, search, wc)}

\* StopClusters.tsx lines 175-193, part_001 lines 58-73: the loop that adds one
\* marker to the group for each stop that passes, a marker being the position
\* of its stop in stopPoints
\* passes[j] tells whether stop j gets through the two tests of the loop
RECURSIVE AddMarkers(_, _, _)
AddMarkers(passes, j, group) ==
    IF j > Len(passes) THEN group
    ELSE AddMarkers(passes, j + 1, IF passes[j] THEN Append(group, j) ELSE group)

\* StopClusters.tsx lines 138-193: the cluster group a run of the effect builds
ClusterGroup(m, namesMap, idsMap, sel, search, wc, meta) ==
    AddMarkers([j \in 1..Len(m.stopPoints) |->
                    /\ MatchesStopMeta(m.stopPoints[j], meta)
                    /\ MatchesRouteFilters(m, namesMap, idsMap, m.stopPoints[j],
                                           sel, search, wc)],
               1, <<>>)

\* part_001 lines 26-73
ClusterGroupAlt(m, namesMap, idsMap, sel, search, wc, meta) ==
    AddMarkers([j \in 1..Len(m.stopPoints) |->
                    /\ MatchesStopMetaAlt(m.stopPoints[j], meta)
                    /\ MatchesRouteFiltersAlt(m, namesMap, idsMap, m.stopPoints[j],
                                              sel, search, wc)],
               1, <<>>)

\* map.addLayer, StopClusters.tsx line 195 and part_001 line 75
AddLayer(attached, group) == Append(attached, group)

RemoveLayerNothing(attached, group) == attached

\* map.removeLayer, StopClusters.tsx line 201 and part_001 line 79: the group
\* leaves the map; removing a group that is not attached changes nothing
RemoveLayer(attached, group) ==
    IF \E i \in 1..Len(attached) : attached[i] = group
    THEN LET i == CHOOSE k \in 1..Len(attached) :
                      /\ attached[k] = group
                      /\ \A l \in 1..(k - 1) : attached[l] # group
         IN  SubSeq(attached, 1, i - 1) \o SubSeq(attached, i + 1, Len(attached))
    ELSE attached

(***************************************************************************)
(* The feed the component is mounted on                                    *)
(***************************************************************************)
Trip(shapeId, routeId, wa) ==
    [shape_id |-> shapeId, route_id |-> routeId, wheelchair_accessible |-> wa]
Route(id, short, color) ==
    [route_id |-> id, route_short_name |-> short, route_long_name |-> Empty, route_color |-> color]
Stop(id, name, x, y, parent, type, wb) ==
    [id |-> id, name |-> name, lat |-> Num(y), lon |-> Num(x),
     location_type |-> type, parent_station |-> parent, wheelchair_boarding |-> wb]

\* route r "a" has shapes s and t, route q "Ab" has shape w, route o "b" has the
\* one-point shape x, route p has shape y and no row in routes.txt, and shape z
\* has no trip
MapTrips(wr, wq) ==
    <<Trip(<<"s">>, <<"r">>, wr), Trip(<<"t">>, <<"r">>, <<"0">>), Trip(<<"w">>, <<"q">>, wq),
      Trip(<<"x">>, <<"o">>, Empty), Trip(<<"y">>, <<"p">>, <<"1">>),
      Trip(<<"s">>, <<"q">>, <<"2">>)>>
MapRoutes ==
    <<Route(<<"o">>, <<"b">>, <<Hash, "0">>), Route(<<"r">>, <<"a">>, <<"f">>),
      Route(<<"q">>, <<"A", "b">>, Empty)>>
MapShapes ==
    <<[k |-> <<"s">>, v |-> <<Pt(0, 0), Pt(100, 0)>>],
      [k |-> <<"z">>, v |-> <<Pt(0, 300), Pt(100, 300)>>],
      [k |-> <<"w">>, v |-> <<Pt(0, 100), Pt(100, 100)>>],
      [k |-> <<"t">>, v |-> <<Pt(500, 500)>>],
      [k |-> <<"x">>, v |-> <<Pt(500, 0)>>],
      [k |-> <<"y">>, v |-> <<Pt(0, 500)>>]>>
MapStops ==
    <<Stop(<<"u">>, <<"a", "B">>, 50, -30, Empty, Empty, <<"2">>),
      Stop(<<"v">>, <<"b">>, 50, 130, <<"u">>, <<"1">>, <<"1">>),
      Stop(<<"k">>, <<"B", "a">>, 50, 50, Empty, Empty, Empty),
      Stop(<<"m">>, <<"a">>, 0, 500, Empty, <<"1">>, <<"2">>),
      Stop(<<"n">>, <<"A">>, 900, 900, <<"u">>, Empty, <<"1">>),
      Stop(<<"j">>, <<"b", "b">>, 500, 0, Empty, Empty, <<"2">>)>>

Feed(wr, wq) ==
    [stopPoints |-> MapStops,
     shapeMap |-> MapShapes,
     shapeToRoute |-> ShapeToRouteOf(MapTrips(wr, wq), 1, <<>>),
     routeShortName |-> RouteShortNameOf(MapRoutes, 1, <<>>),
     routeColor |-> RouteColorOf(MapRoutes, 1, <<>>),
     routeWheelchair |-> RouteWheelchairOf(MapTrips(wr, wq), 1, <<>>)]

Feeds == {Feed(wr, wq) : wr \in {<<"1">>, <<"0">>}, wq \in {<<"1">>, <<"2">>}}

\* what the user can type in the two text inputs
SearchTexts == {Empty, <<"a">>, <<"A">>, <<"a", "b">>, <<"b">>}
MetaTexts == {Empty, <<"B">>, <<"1">>, <<"u">>}

\* the requests in flight: the superseded ones and the latest while it is pending
RECURSIVE SumOver(_, _)
SumOver(f, S) ==
    IF S = {} THEN 0
    ELSE LET x == CHOOSE x \in S : TRUE IN f[x] + SumOver(f, S \ {x})
InFlight == SumOver(stale, DOMAIN stale) + (IF latest.state = "pending" THEN 1 ELSE 0)

\* lines 254-258: the component after its first render and its first effects
Init ==
    /\ pc = "mounted"
    /\ memo \in Feeds
    /\ stopToRouteNames = StopToRoute(memo).mapRes
    /\ stopToRouteIds = StopToRoute(memo).mapResIds
    /\ selectedRoute = Empty
    /\ routeSearch = Empty
    /\ wheelchairOnly = FALSE
    /\ stopMetaFilter = Empty
    /\ hdPolyline = Null
    /\ latest = NoRequest
    /\ stale = [shapeId \in MapKeys(memo.shapeMap) |-> 0]
    /\ polylines = Polylines(memo, stopToRouteIds, Empty, Empty, FALSE, Null)
    /\ markers = Markers(memo, stopToRouteNames, stopToRouteIds, Empty, Empty, FALSE, Empty)
    /\ markersAlt = MarkersAlt(memo, stopToRouteNames, stopToRouteIds, Empty, Empty, FALSE, Empty)
    /\ options = OptionList(memo, Empty)
    /\ layers = <<ClusterGroup(memo, stopToRouteNames, stopToRouteIds, Empty, Empty, FALSE, Empty)>>
    /\ layersAlt = <<ClusterGroupAlt(memo, stopToRouteNames, stopToRouteIds, Empty, Empty, FALSE, Empty)>>
    /\ text = <<>> /\ objects = <<>>
    /\ shapes = <<>> /\ shapeMap = <<>>
    /\ routes = <<>> /\ routeColor = <<>>
    /\ stopPoints = <<>> /\ gridSizePx = <<>> /\ view = <<>> /\ clusters = <<>> /\ handlers = <<>> /\ lastPass = <<>>
    /\ stopRows = <<>> /\ tripRows = <<>> /\ shapeToRoute = <<>> /\ routeWheelchair = <<>>
    /\ relationId = 0 /\ ways = <<>> /\ error = <<>> /\ relLatest = <<>> /\ relStale = <<>> /\ relShown = <<>>

\* Map.tsx lines 296-390: the render that follows a change of state
Render ==
    /\ polylines' = Polylines(memo, stopToRouteIds, selectedRoute', routeSearch',
                              wheelchairOnly', hdPolyline')
    /\ options' = OptionList(memo, routeSearch')

\* StopClusters.tsx lines 132-206 and part_001 lines 23-84: a filter among the
\* dependencies of the effect has changed, so the cleanup of its previous run
\* takes that run's group off the map, then the effect builds and attaches
\* the group of the new state
StopLayerEffect ==
    /\ markers' = Markers(memo, stopToRouteNames, stopToRouteIds, selectedRoute',
                          routeSearch', wheelchairOnly', stopMetaFilter')
    /\ markersAlt' = MarkersAlt(memo, stopToRouteNames, stopToRouteIds, selectedRoute',
                                routeSearch', wheelchairOnly', stopMetaFilter')
    /\ layers' =
          AddLayer(RemoveLayer(layers,
                               ClusterGroup(memo, stopToRouteNames, stopToRouteIds,
                                            selectedRoute, routeSearch, wheelchairOnly,
                                            stopMetaFilter)),
                   ClusterGroup(memo, stopToRouteNames, stopToRouteIds, selectedRoute',
                                routeSearch', wheelchairOnly', stopMetaFilter'))
    /\ layersAlt' =
          AddLayer(RemoveLayer(layersAlt,
                               ClusterGroupAlt(memo, stopToRouteNames, stopToRouteIds,
                                               selectedRoute, routeSearch, wheelchairOnly,
                                               stopMetaFilter)),
                   ClusterGroupAlt(memo, stopToRouteNames, stopToRouteIds, selectedRoute',
                                   routeSearch', wheelchairOnly', stopMetaFilter'))

\* line 308 and lines 261-286: the user picks an option of the select; the effect
\* empties hdPolyline and sends the request of the new selection, while the
\* request of the previous selection, if still pending, stays in flight
SelectRoute(value) ==
    /\ pc = "mounted"
    /\ value \in Options(memo, routeSearch)
    /\ value # selectedRoute
    /\ IssuedRequest(memo, value).state = "pending" => InFlight < MaxInFlight
    /\ selectedRoute' = value
    /\ hdPolyline' = Null
    /\ stale' = IF latest.state = "pending"
                THEN [stale EXCEPT ![latest.shape] = @ + 1]
                ELSE stale
    /\ latest' = IssuedRequest(memo, value)
    /\ UNCHANGED <<routeSearch, wheelchairOnly, stopMetaFilter, pc, csvVars, shapeVars,
                   routeVars, joinVars, gridVars, tableVars, relVars>>
    /\ Render
    /\ StopLayerEffect

\* line 304
SetRouteSearch(value) ==
    /\ pc = "mounted"
    /\ value # routeSearch
    /\ routeSearch' = value
    /\ UNCHANGED <<selectedRoute, wheelchairOnly, stopMetaFilter, fetchVars, pc, csvVars,
                   shapeVars, routeVars, joinVars, gridVars, tableVars, relVars>>
    /\ Render
    /\ StopLayerEffect

\* line 316
SetWheelchairOnly(checked) ==
    /\ pc = "mounted"
    /\ checked # wheelchairOnly
    /\ wheelchairOnly' = checked
    /\ UNCHANGED <<selectedRoute, routeSearch, stopMetaFilter, fetchVars, pc, csvVars,
                   shapeVars, routeVars, joinVars, gridVars, tableVars, relVars>>
    /\ Render
    /\ StopLayerEffect

\* line 321
SetStopMetaFilter(value) ==
    /\ pc = "mounted"
    /\ value # stopMetaFilter
    /\ stopMetaFilter' = value
    /\ UNCHANGED <<selectedRoute, routeSearch, wheelchairOnly, fetchVars, pc, csvVars,
                   shapeVars, routeVars, joinVars, gridVars, tableVars, relVars>>
    /\ Render
    /\ StopLayerEffect

\* lines 52-67 and 281-283: the request of the last run of the effect settles,
\* with a path (line 62) or with null (lines 59, 64-67)
ResolveLatest(ok) ==
    /\ pc = "mounted"
    /\ latest.state = "pending"
    /\ latest' = [latest EXCEPT !.state = IF ok THEN "fulfilled" ELSE "null"]
    /\ hdPolyline' = IF ok THEN Geometry(MapGet(memo.shapeMap, latest.shape)) ELSE hdPolyline
    /\ UNCHANGED <<stale, filterVars, pc, csvVars, shapeVars, routeVars, joinVars, gridVars, tableVars, relVars>>
    /\ Render
    /\ UNCHANGED <<markers, markersAlt, layers, layersAlt>>

\* lines 281-283: a request of an earlier run of the effect settles; its
\* callback runs all the same
ResolveStale(shapeId, ok) ==
    /\ pc = "mounted"
    /\ shapeId \in DOMAIN stale
    /\ stale[shapeId] > 0
    /\ stale' = [stale EXCEPT ![shapeId] = @ - 1]
    /\ hdPolyline' = IF ok THEN Geometry(MapGet(memo.shapeMap, shapeId)) ELSE hdPolyline
    /\ UNCHANGED <<latest, filterVars, pc, csvVars, shapeVars, routeVars, joinVars, gridVars, tableVars, relVars>>
    /\ Render
    /\ UNCHANGED <<markers, markersAlt, layers, layersAlt>>

\* the component leaves the page: the cleanups of the stop layers run
\* (StopClusters.tsx lines 197-205, part_001 lines 77-83)
UnmountMap ==
    /\ pc = "mounted"
    /\ pc' = "unmounted"
    /\ layers' = RemoveLayer(layers,
                             ClusterGroup(memo, stopToRouteNames, stopToRouteIds,
                                          selectedRoute, routeSearch, wheelchairOnly,
                                          stopMetaFilter))
    /\ layersAlt' = RemoveLayer(layersAlt,
                                ClusterGroupAlt(memo, stopToRouteNames, stopToRouteIds,
                                                selectedRoute, routeSearch, wheelchairOnly,
                                                stopMetaFilter))
    /\ UNCHANGED <<polylines, markers, markersAlt, options, filterVars, fetchVars,
                   csvVars, shapeVars, routeVars, joinVars, gridVars, tableVars, relVars>>

Next ==
    \/ \E value \in AllRouteNames(memo) \cup {Empty} : SelectRoute(value)
    \/ \E value \in SearchTexts : SetRouteSearch(value)
    \/ \E checked \in BOOLEAN : SetWheelchairOnly(checked)
    \/ \E value \in MetaTexts : SetStopMetaFilter(value)
    \/ \E ok \in BOOLEAN : ResolveLatest(ok)
    \/ \E shapeId \in MapKeys(memo.shapeMap), ok \in BOOLEAN : ResolveStale(shapeId, ok)
    \/ UnmountMap

(***************************************************************************)
(* Claims about the map component                                          *)
(***************************************************************************)
PointsOf(shapeId) == MapGet(memo.shapeMap, shapeId)
Drawn(shapeId) == \E p \in polylines : p.shapeId = shapeId

\* C1: a response that arrives after the selection has changed is discarded:
\* hdPolyline is empty or holds the path returned for the request issued for the
\* route selected now, and no polyline is drawn with any other path than that
\* one or its own shape points
C1_StaleResponseDiscarded ==
    pc = "mounted" =>
        /\ \/ hdPolyline = Null
           \/ /\ latest.state = "fulfilled"
              /\ latest.route = selectedRoute
              /\ hdPolyline = Geometry(PointsOf(latest.shape))
        /\ \A p \in polylines :
              \/ p.positions = Coords(PointsOf(p.shapeId))
              \/ /\ latest.state = "fulfilled"
                 /\ latest.route = selectedRoute
                 /\ p.positions = Geometry(PointsOf(latest.shape))

\* C2: when the request of the selected route has failed (an error, a response
\* without routes, or fewer than 2 waypoints), hdPolyline is empty and every
\* polyline is drawn with the points of its own shape
C2_FailedFetchKeepsShapePoints ==
    pc = "mounted" /\ latest.state = "null" =>
        /\ hdPolyline = Null
        /\ \A p \in polylines : p.positions = Coords(PointsOf(p.shapeId))

\* q occurs in f, letter case aside
CiSubstring(q, f) ==
    \E off \in 0..(Len(f) - Len(q)) :
        \A c \in 1..Len(q) : LowerChar(f[off + c]) = LowerChar(q[c])
\* n and q are the same text, letter case aside
CiEqual(n, q) ==
    Len(n) = Len(q) /\ \A c \in 1..Len(q) : LowerChar(n[c]) = LowerChar(q[c])

MetaPasses(stop) ==
    \/ stopMetaFilter = Empty
    \/ \E f \in {stop.name, stop.id, stop.parent_station, stop.location_type} :
          CiSubstring(stopMetaFilter, f)
SelectionPasses(stop) ==
    selectedRoute = Empty \/ selectedRoute \in NamesOf(stop.id)
AccessPasses(stop) ==
    \/ ~wheelchairOnly
    \/ stop.wheelchair_boarding = <<"1">>
    \/ \E r \in IdsOf(stop.id) : r \in MapKeys(memo.routeWheelchair)
\* a stop whose own flag says "not accessible" and none of whose routes is accessible
ShutOut(stop) ==
    /\ stop.wheelchair_boarding = <<"2">>
    /\ IdsOf(stop.id) # {}
    /\ IdsOf(stop.id) \cap MapKeys(memo.routeWheelchair) = {}

\* C3: a stop has a marker iff it passes the stop filter text, the selected
\* route, the route search (equality in StopClusters.tsx, containment in
\* part_001, both letter case aside) and the accessibility test; a stop flagged
\* "2" whose routes are all non-accessible has none when wheelchairOnly is set
C3_StopShownIffFiltersPass ==
    pc = "mounted" =>
        \A j \in 1..Len(memo.stopPoints) :
            LET stop == memo.stopPoints[j]
                rest == MetaPasses(stop) /\ SelectionPasses(stop) /\ AccessPasses(stop)
            IN  /\ j \in markers <=>
                      /\ rest
                      /\ routeSearch = Empty
                            \/ \E n \in NamesOf(stop.id) : CiEqual(n, routeSearch)
                /\ j \in markersAlt <=>
                      /\ rest
                      /\ routeSearch = Empty
                            \/ \E n \in NamesOf(stop.id) : CiSubstring(routeSearch, n)
                /\ wheelchairOnly /\ ShutOut(stop) => j \notin markers \cup markersAlt

\* every filter is set, stop u (flagged "2", on the non-accessible route r only)
\* passes the three other filters and has no marker, and stop k has one
C3_Witness ==
    /\ pc = "mounted"
    /\ wheelchairOnly
    /\ selectedRoute = <<"a">> /\ routeSearch = <<"A">> /\ stopMetaFilter = <<"B">>
    /\ ShutOut(memo.stopPoints[1])
    /\ MetaPasses(memo.stopPoints[1]) /\ SelectionPasses(memo.stopPoints[1])
    /\ 1 \notin markers /\ 1 \notin markersAlt
    /\ markers = {3} /\ markersAlt = {3}

HasRoute(shapeId) == MapHas(memo.shapeToRoute, shapeId)
RouteOf(shapeId) == MapGet(memo.shapeToRoute, shapeId)
HasName(shapeId) == HasRoute(shapeId) /\ MapHas(memo.routeShortName, RouteOf(shapeId))
LineSelectionPasses(shapeId) ==
    selectedRoute = Empty
        \/ (HasName(shapeId) /\ MapGet(memo.routeShortName, RouteOf(shapeId)) = selectedRoute)
LineSearchPasses(shapeId) ==
    routeSearch = Empty
        \/ (HasName(shapeId) /\ CiEqual(MapGet(memo.routeShortName, RouteOf(shapeId)), routeSearch))
LineAccessPasses(shapeId) ==
    \/ ~wheelchairOnly
    \/ /\ HasRoute(shapeId)
       /\ \/ RouteOf(shapeId) \in MapKeys(memo.routeWheelchair)
          \/ \E j \in 1..Len(memo.stopPoints) :
                /\ RouteOf(shapeId) \in IdsOf(memo.stopPoints[j].id)
                /\ memo.stopPoints[j].wheelchair_boarding = <<"1">>

\* C4: the polyline of a shape with points is drawn iff the shape passes the
\* selected route, the route search and the accessibility test; a shape with no
\* route has no accessible route and no stop, so it is not drawn when
\* wheelchairOnly is set
C4_PolylineShownIffFiltersPass ==
    pc = "mounted" =>
        \A i \in 1..Len(memo.shapeMap) :
            LET shapeId == memo.shapeMap[i].k
            IN  Len(memo.shapeMap[i].v) >= 1 =>
                    (Drawn(shapeId) <=> /\ LineSelectionPasses(shapeId)
                                        /\ LineSearchPasses(shapeId)
                                        /\ LineAccessPasses(shapeId))

\* C5: the stop layer, in both of its copies, and the polyline filter accept a
\* route name for the search text in exactly the same cases
C5_SameRouteSearchPredicate ==
    pc = "mounted" /\ routeSearch # Empty =>
        \A n \in AllRouteNames(memo) :
            /\ RouteSearchMatchesStop(n, routeSearch) <=> RouteSearchMatchesLine(n, routeSearch)
            /\ RouteSearchMatchesStopAlt(n, routeSearch) <=> RouteSearchMatchesLine(n, routeSearch)

(***************************************************************************)
(* The grid stop layer (src/src/components/StopClusters.tsx lines 1-108):  *)
(* computeClusters, the effect that runs it and registers it on the pan    *)
(* and zoom events of the map, and the cluster state                       *)
(***************************************************************************)
\* line 11: the default of the gridSizePx prop
DefaultGridSizePx == 60

\* lines 21-22: the layer point of a stop under the view v of the map (its zoom
\* scale and its pixel origin), in whole pixels
LatLngToLayerPoint(v, stop) ==
    [x |-> stop.lon.n * v.scale - v.dx, y |-> v.dy - stop.lat.n * v.scale]

\* the key built from the column alone
GridKeyColumn(keyX, keyY) == ToString(keyX)

\* line 25: `${keyX}:${keyY}`
GridKey(keyX, keyY) == ToString(keyX) \o ":" \o ToString(keyY)

\* line 26: a fresh cell
EmptyCell == [sumLat |-> 0, sumLon |-> 0, count |-> 0, stops |-> <<>>]

\* lines 20-32: the stops dropped into the cells of the grid, one after the other
RECURSIVE FillGrid(_, _, _, _, _)
FillGrid(stops, i, v, size, grid) ==
    IF i > Len(stops) THEN grid
    ELSE LET stop == stops[i]
             point == LatLngToLayerPoint(v, stop)
             keyX == point.x \div size
             keyY == point.y \div size
             key == GridKey(keyX, keyY)
             cell == IF MapHas(grid, key) THEN MapGet(grid, key) ELSE EmptyCell
         IN  FillGrid(stops, i + 1, v, size,
                 MapSet(grid, key, [sumLat |-> cell.sumLat + stop.lat.n,
                                    sumLon |-> cell.sumLon + stop.lon.n,
                                    count |-> cell.count + 1,
                                    stops |-> Append(cell.stops, stop)]))

RECURSIVE Gcd(_, _)
Gcd(a, b) == IF b = 0 THEN a ELSE Gcd(b, a % b)
Abs(a) == IF a < 0 THEN -a ELSE a

\* lines 36-37: the quotient a / b of two whole numbers, b > 0, kept exact as a
\* fraction in lowest terms
Quotient(a, b) ==
    LET g == Gcd(Abs(a), b) IN [num |-> a \div g, den |-> b \div g]

\* lines 34-39: one cluster per cell, in the order the cells were created
NewClusters(grid) ==
    [c \in 1..Len(grid) |->
        [lat |-> Quotient(grid[c].v.sumLat, grid[c].v.count),
         lon |-> Quotient(grid[c].v.sumLon, grid[c].v.count),
         count |-> grid[c].v.count,
         stops |-> grid[c].v.stops]]

\* lines 17-40: what a run of computeClusters that does not throw hands to setClusters
ComputeClusters(stops, v, size) == NewClusters(FillGrid(stops, 1, v, size, <<>>))

\* lines 15-46: computeClusters as memoised for given props: the stop list and
\* the cell size it closes over
Closure(stops, size) == [stopPoints |-> stops, gridSizePx |-> size]

\* lines 16-44: one run of a closure, the component being mounted or not, on
\* the state st = [clusters, lastPass]; the projection throws (line 22) only if
\* there is a stop to project, and then nothing is set (lines 41-43)
RunPass(closure, v, throws, mounted, st) ==
    IF throws /\ Len(closure.stopPoints) > 0
    THEN [clusters |-> st.clusters, lastPass |-> "threw"]
    ELSE [clusters |-> IF mounted THEN ComputeClusters(closure.stopPoints, v, closure.gridSizePx)
                       ELSE st.clusters,
          lastPass |-> "ok"]

\* the map fires an event: its listeners run in the order of registration, those
\* at the positions in T with a projection that throws
RECURSIVE Fire(_, _, _, _, _, _)
Fire(listeners, i, v, T, mounted, st) ==
    IF i > Len(listeners) THEN st
    ELSE Fire(listeners, i + 1, v, T, mounted,
              RunPass(listeners[i], v, i \in T, mounted, st))

\* map.on: the listener is added after those already registered
On(listeners, fn) == Append(listeners, fn)

\* map.off that removes nothing
OffNothing(listeners, fn) == listeners

\* map.off: the listener is removed
RECURSIVE Off(_, _)
Off(listeners, fn) ==
    IF listeners = <<>> THEN <<>>
    ELSE IF Head(listeners) = fn THEN Tail(listeners)
    ELSE <<Head(listeners)>> \o Off(Tail(listeners), fn)

\* the stops the layer can be handed: A and B share a cell of 60 pixels at
\* scale 1, as does C unless the cell is halved, D is in the row above (a
\* negative row)
GridStop(id, x, y) == Stop(id, <<"n">>, x, y, Empty, Empty, Empty)
GridStops ==
    <<GridStop(<<"A">>, 10, -10), GridStop(<<"B">>, 50, -20),
      GridStop(<<"C">>, 55, -10), GridStop(<<"D">>, 10, 5)>>

\* the stops of GridStops at the positions in S, in the order of GridStops
RECURSIVE Pick(_, _)
Pick(i, S) ==
    IF i > Len(GridStops) THEN <<>>
    ELSE (IF i \in S THEN <<GridStops[i]>> ELSE <<>>) \o Pick(i + 1, S)

GridStopLists ==
    {Pick(1, S) : S \in {S \in SUBSET (1..Len(GridStops)) : Cardinality(S) <= MaxGridStops}}

View(scale, dx) == [scale |-> scale, dx |-> dx, dy |-> 0]
Views == {View(1, 0), View(1, 30), View(2, 0)}
CellSizes == {DefaultGridSizePx, 30}

\* lines 11-13: the component constructed, before its first effect
GridInit ==
    /\ pc = "start"
    /\ stopPoints \in GridStopLists
    /\ gridSizePx \in CellSizes
    /\ view \in Views
    /\ clusters = <<>>
    /\ handlers = [moveend |-> <<>>, zoomend |-> <<>>]
    /\ lastPass = "none"
    /\ text = <<>> /\ objects = <<>>
    /\ shapes = <<>> /\ shapeMap = <<>>
    /\ routes = <<>> /\ routeColor = <<>>
    /\ memo = <<>> /\ stopToRouteNames = <<>> /\ stopToRouteIds = <<>>
    /\ selectedRoute = <<>> /\ routeSearch = <<>> /\ wheelchairOnly = FALSE
    /\ stopMetaFilter = <<>> /\ hdPolyline = <<>> /\ latest = <<>> /\ stale = <<>>
    /\ polylines = {} /\ markers = {} /\ markersAlt = {}
    /\ options = <<>> /\ layers = <<>> /\ layersAlt = <<>>
    /\ stopRows = <<>> /\ tripRows = <<>> /\ shapeToRoute = <<>> /\ routeWheelchair = <<>>
    /\ relationId = 0 /\ ways = <<>> /\ error = <<>> /\ relLatest = <<>> /\ relStale = <<>> /\ relShown = <<>>

\* lines 48-52: the body of the effect for the props given: one run of
\* computeClusters, then the closure is registered on both events
EffectBody(stops, size, throws, listeners) ==
    LET st == RunPass(Closure(stops, size), view, throws, TRUE,
                      [clusters |-> clusters, lastPass |-> lastPass])
    IN  /\ clusters' = st.clusters
        /\ lastPass' = st.lastPass
        /\ handlers' = [moveend |-> On(listeners.moveend, Closure(stops, size)),
                        zoomend |-> On(listeners.zoomend, Closure(stops, size))]

\* lines 53-56: the cleanup of the effect that ran for the current props
Cleanup ==
    [moveend |-> Off(handlers.moveend, Closure(stopPoints, gridSizePx)),
     zoomend |-> Off(handlers.zoomend, Closure(stopPoints, gridSizePx))]

\* lines 48-57: the first run of the effect
Mount(throws) ==
    /\ pc = "start"
    /\ pc' = "mounted"
    /\ EffectBody(stopPoints, gridSizePx, throws, handlers)
    /\ UNCHANGED <<stopPoints, gridSizePx, view, csvVars, shapeVars, routeVars, joinVars,
                   filterVars, fetchVars, viewVars, tableVars, relVars>>

\* the user ends a pan: the map fires moveend (lines 50-51)
MoveEnd(v, T) ==
    /\ pc \in {"mounted", "unmounted"}
    /\ v.scale = view.scale
    /\ view' = v
    /\ LET st == Fire(handlers.moveend, 1, v, T, pc = "mounted",
                      [clusters |-> clusters, lastPass |-> lastPass])
       IN  clusters' = st.clusters /\ lastPass' = st.lastPass
    /\ UNCHANGED <<pc, stopPoints, gridSizePx, handlers, csvVars, shapeVars, routeVars,
                   joinVars, filterVars, fetchVars, viewVars, tableVars, relVars>>

\* the user ends a zoom: the map fires zoomend, then moveend (lines 50-52)
ZoomEnd(v, T1, T2) ==
    /\ pc \in {"mounted", "unmounted"}
    /\ v.scale # view.scale
    /\ view' = v
    /\ LET st1 == Fire(handlers.zoomend, 1, v, T1, pc = "mounted",
                       [clusters |-> clusters, lastPass |-> lastPass])
           st2 == Fire(handlers.moveend, 1, v, T2, pc = "mounted", st1)
       IN  clusters' = st2.clusters /\ lastPass' = st2.lastPass
    /\ UNCHANGED <<pc, stopPoints, gridSizePx, handlers, csvVars, shapeVars, routeVars,
                   joinVars, filterVars, fetchVars, viewVars, tableVars, relVars>>

\* lines 46 and 57: a new stop list makes a new computeClusters, so the effect
\* is cleaned up and runs again
SetStopPoints(stops, throws) ==
    /\ pc = "mounted"
    /\ stops # stopPoints
    /\ stopPoints' = stops
    /\ EffectBody(stops, gridSizePx, throws, Cleanup)
    /\ UNCHANGED <<pc, gridSizePx, view, csvVars, shapeVars, routeVars, joinVars,
                   filterVars, fetchVars, viewVars, tableVars, relVars>>

\* lines 46 and 57: the same for a new cell size
SetGridSizePx(size, throws) ==
    /\ pc = "mounted"
    /\ size # gridSizePx
    /\ gridSizePx' = size
    /\ EffectBody(stopPoints, size, throws, Cleanup)
    /\ UNCHANGED <<pc, stopPoints, view, csvVars, shapeVars, routeVars, joinVars,
                   filterVars, fetchVars, viewVars, tableVars, relVars>>

\* lines 53-56: the component is unmounted
Unmount ==
    /\ pc = "mounted"
    /\ pc' = "unmounted"
    /\ handlers' = Cleanup
    /\ UNCHANGED <<stopPoints, gridSizePx, view, clusters, lastPass, csvVars, shapeVars,
                   routeVars, joinVars, filterVars, fetchVars, viewVars, tableVars, relVars>>

GridNext ==
    \/ \E throws \in BOOLEAN : Mount(throws)
    \/ \E v \in Views, T \in SUBSET (1..Len(handlers.moveend)) : MoveEnd(v, T)
    \/ \E v \in Views, T1 \in SUBSET (1..Len(handlers.zoomend)),
          T2 \in SUBSET (1..Len(handlers.moveend)) : ZoomEnd(v, T1, T2)
    \/ \E stops \in GridStopLists, throws \in BOOLEAN : SetStopPoints(stops, throws)
    \/ \E size \in CellSizes, throws \in BOOLEAN : SetGridSizePx(size, throws)
    \/ Unmount

(***************************************************************************)
(* Claims about the grid stop layer                                        *)
(***************************************************************************)
\* the index of the cell of width gridSizePx that holds pixel coordinate a
CellIndex(a) ==
    CHOOSE k \in -10..10 : k * gridSizePx <= a /\ a < (k + 1) * gridSizePx
CellOf(stop) ==
    <<CellIndex(LatLngToLayerPoint(view, stop).x), CellIndex(LatLngToLayerPoint(view, stop).y)>>
ClustersOf(stop) == {c \in 1..Len(clusters) : stop \in Range(clusters[c].stops)}

RECURSIVE SumLat(_)
SumLat(stops) == IF stops = <<>> THEN 0 ELSE Head(stops).lat.n + SumLat(Tail(stops))
RECURSIVE SumLon(_)
SumLon(stops) == IF stops = <<>> THEN 0 ELSE Head(stops).lon.n + SumLon(Tail(stops))

\* C11: after a run of computeClusters, every stop is in exactly one cluster,
\* two stops share a cluster iff they share a cell of the grid, the count of a
\* cluster is the number of its members and its centroid is the mean of their
\* latitudes and longitudes; so N stops in one cell make one cluster of count
\* N, and N stops in N cells make N clusters of count 1
C11_GridPartitionsStops ==
    pc = "mounted" /\ lastPass = "ok" =>
        /\ \A i \in 1..Len(stopPoints) : Cardinality(ClustersOf(stopPoints[i])) = 1
        /\ \A c \in 1..Len(clusters) : Range(clusters[c].stops) \subseteq Range(stopPoints)
        /\ \A i, j \in 1..Len(stopPoints) :
              ClustersOf(stopPoints[i]) = ClustersOf(stopPoints[j])
                  <=> CellOf(stopPoints[i]) = CellOf(stopPoints[j])
        /\ \A c \in 1..Len(clusters) :
              /\ clusters[c].count = Len(clusters[c].stops)
              /\ clusters[c].count = Cardinality(Range(clusters[c].stops))
              /\ clusters[c].lat.num * clusters[c].count
                     = clusters[c].lat.den * SumLat(clusters[c].stops)
              /\ clusters[c].lon.num * clusters[c].count
                     = clusters[c].lon.den * SumLon(clusters[c].stops)
        /\ Len(stopPoints) >= 1
              /\ (\A i, j \in 1..Len(stopPoints) : CellOf(stopPoints[i]) = CellOf(stopPoints[j]))
              => Len(clusters) = 1 /\ clusters[1].count = Len(stopPoints)
        /\ (\A i, j \in 1..Len(stopPoints) :
                i # j => CellOf(stopPoints[i]) # CellOf(stopPoints[j]))
              => /\ Len(clusters) = Len(stopPoints)
                 /\ \A c \in 1..Len(clusters) : clusters[c].count = 1

\* three stops in one cell make one cluster of count 3, whose centroid is not
\* one of the stops
C11_Witness ==
    /\ pc = "mounted" /\ lastPass = "ok"
    /\ Len(stopPoints) = 3
    /\ Len(clusters) = 1
    /\ clusters[1].count = 3
    /\ clusters[1].lat.den = 3

\* three stops in three cells, one of them in a negative row
C11_WitnessSingletons ==
    /\ pc = "mounted" /\ lastPass = "ok"
    /\ Len(stopPoints) = 3
    /\ Len(clusters) = 3
    /\ \E i \in 1..3 : CellOf(stopPoints[i])[2] < 0

\* the cells that hold a stop of the current list, and the stops of a cell in
\* the order of the list
OccupiedCells == {CellOf(stopPoints[i]) : i \in 1..Len(stopPoints)}
StopsIn(cell) ==
    LET InCell(stop) == CellOf(stop) = cell IN SelectSeq(stopPoints, InCell)

\* the cluster state is the bucketing of the current stop list under the
\* current view and cell size
Bucketed ==
    /\ Len(clusters) = Cardinality(OccupiedCells)
    /\ {clusters[c].stops : c \in 1..Len(clusters)} = {StopsIn(cell) : cell \in OccupiedCells}

\* the listeners of the component on an event: the current computeClusters
Registered(listeners) == listeners = <<Closure(stopPoints, gridSizePx)>>

\* a run of computeClusters that follows a run with nothing changed in between
Repeated ==
    /\ pc = "mounted" /\ pc' = "mounted"
    /\ lastPass = "ok" /\ lastPass' = "ok"
    /\ UNCHANGED <<stopPoints, gridSizePx, view, tableVars>>

\* C17: the mounted component has its current computeClusters registered on
\* moveend and on zoomend, and has run it at mount and at every change of the
\* stop list or the cell size: whenever the last run succeeded the cluster state
\* is the bucketing of the current stop list under the current view; a repeated
\* run leaves the cluster list as it is; after unmount no listener is left
C17_ClustersFollowTriggers ==
    /\ [](pc = "mounted" => Registered(handlers.moveend) /\ Registered(handlers.zoomend))
    /\ [](pc = "mounted" /\ lastPass = "ok" => Bucketed)
    /\ [][Repeated => clusters' = clusters]_<<pc, gridVars>>
    /\ [](pc = "unmounted" => handlers.moveend = <<>> /\ handlers.zoomend = <<>>)

\* after a change of the stop list and a pan, the clusters are those of the new
\* list under the new view
C17_Witness ==
    /\ pc = "mounted" /\ lastPass = "ok"
    /\ view = View(1, 30)
    /\ Len(stopPoints) = 3
    /\ Len(clusters) = 2
    /\ Bucketed

\* C18: when the projection throws during a run of computeClusters, the run
\* yields no clusters: the cluster list shown after it is empty
C18_FailedPassShowsNoClusters ==
    pc = "mounted" /\ lastPass = "threw" => clusters = <<>>

(***************************************************************************)
(* stopPoints (Map.tsx lines 73-94)                                        *)
(***************************************************************************)
\* a number that is not NaN
NotNaN(x) == ~x.nan

\* line 79: Number.isFinite
NumberIsFinite(x) == ~x.nan /\ ~x.inf

\* lines 85-87: field ?? ''
OrEmpty(field) == IF field = Undefined THEN Empty ELSE field

\* lines 76-91: the point made of a row, or null
StopPointOf(stopRow) ==
    LET lat == ParseFloat(stopRow.stop_lat)
        lon == ParseFloat(stopRow.stop_lon)
    IN  IF NumberIsFinite(lat) /\ NumberIsFinite(lon)
        THEN <<[id |-> stopRow.stop_id, name |-> stopRow.stop_name, lat |-> lat, lon |-> lon,
                location_type |-> OrEmpty(stopRow.location_type),
                parent_station |-> OrEmpty(stopRow.parent_station),
                wheelchair_boarding |-> OrEmpty(stopRow.wheelchair_boarding)]>>
        ELSE <<>>

\* lines 75-92: map, then filter(Boolean)
RECURSIVE StopPointsOf(_, _)
StopPointsOf(rows, i) ==
    IF i > Len(rows) THEN <<>>
    ELSE StopPointOf(rows[i]) \o StopPointsOf(rows, i + 1)

\* the texts of the coordinate columns, as parseCSV hands them over (trimmed)
LatTexts == {<<"1">>, <<"-", "2">>, <<"3", "x">>, <<"x">>, Empty, InfinityText}
LonTexts == {<<"2">>, <<"x">>}
\* the optional columns the header of stops.txt has
StopHeaders == {{}, {"location_type"}, {"parent_station", "wheelchair_boarding"},
                {"location_type", "parent_station", "wheelchair_boarding"}}
StopRow(header, lat, lon, o) ==
    [stop_id |-> <<"u">>, stop_name |-> <<"n">>, stop_lat |-> lat, stop_lon |-> lon,
     location_type |-> IF "location_type" \in header THEN o ELSE Undefined,
     parent_station |-> IF "parent_station" \in header THEN o ELSE Undefined,
     wheelchair_boarding |-> IF "wheelchair_boarding" \in header THEN o ELSE Undefined]
StopRows(header) ==
    {StopRow(header, lat, lon, o) : lat \in LatTexts, lon \in LonTexts, o \in {Empty, <<"1">>}}
StopRowSeqs == UNION {UNION {[1..n -> StopRows(header)] : n \in 0..MaxStopRows} :
                        header \in StopHeaders}

StopsInit ==
    /\ pc = "start"
    /\ stopRows \in StopRowSeqs
    /\ stopPoints = <<>>
    /\ text = <<>> /\ objects = <<>>
    /\ shapes = <<>> /\ shapeMap = <<>>
    /\ routes = <<>> /\ routeColor = <<>>
    /\ memo = <<>> /\ stopToRouteNames = <<>> /\ stopToRouteIds = <<>>
    /\ selectedRoute = <<>> /\ routeSearch = <<>> /\ wheelchairOnly = FALSE
    /\ stopMetaFilter = <<>> /\ hdPolyline = <<>> /\ latest = <<>> /\ stale = <<>>
    /\ polylines = {} /\ markers = {} /\ markersAlt = {}
    /\ options = <<>> /\ layers = <<>> /\ layersAlt = <<>>
    /\ gridSizePx = <<>> /\ view = <<>> /\ clusters = <<>> /\ handlers = <<>> /\ lastPass = <<>>
    /\ tripRows = <<>> /\ shapeToRoute = <<>> /\ routeWheelchair = <<>>
    /\ relationId = 0 /\ ways = <<>> /\ error = <<>> /\ relLatest = <<>> /\ relStale = <<>> /\ relShown = <<>>

\* lines 73-94: the useMemo
BuildStopPoints ==
    /\ pc = "start"
    /\ stopPoints' = StopPointsOf(stopRows, 1)
    /\ pc' = "done"
    /\ UNCHANGED <<stopRows, tripRows, shapeToRoute, routeWheelchair, gridSizePx, view, clusters,
                   handlers, lastPass, csvVars, shapeVars, routeVars, joinVars, filterVars,
                   fetchVars, viewVars, relVars>>

(***************************************************************************)
(* Claims about stopPoints                                                 *)
(***************************************************************************)
\* the text of a coordinate reads as a finite number: after leading white space
\* and an optional sign comes a digit
FiniteText(s) ==
    /\ s # Undefined
    /\ \E i \in 1..Len(s) :
          /\ s[i] \in Digits
          /\ \A j \in 1..(i - 1) : IsSpace(s[j]) \/ (j = i - 1 /\ s[j] \in {"+", "-"})
Valid(row) == FiniteText(row.stop_lat) /\ FiniteText(row.stop_lon)
ValidRows == SelectSeq(stopRows, Valid)
AsString(field) == IF field = Undefined THEN Empty ELSE field

\* C12: the stop points are the rows whose two coordinates read as finite
\* numbers, one point per such row in the order of the rows, and the three
\* optional fields of a point are strings, empty when the row lacks them
C12_StopPointsAreTheValidRows ==
    pc = "done" =>
        /\ Len(stopPoints) = Len(stopRows) - Cardinality({i \in 1..Len(stopRows) : ~Valid(stopRows[i])})
        /\ Len(stopPoints) = Len(ValidRows)
        /\ \A k \in 1..Len(stopPoints) :
              /\ stopPoints[k].id = ValidRows[k].stop_id
              /\ stopPoints[k].lat = ParseFloat(ValidRows[k].stop_lat)
              /\ stopPoints[k].lon = ParseFloat(ValidRows[k].stop_lon)
              /\ ~stopPoints[k].lat.nan /\ ~stopPoints[k].lat.inf
              /\ ~stopPoints[k].lon.nan /\ ~stopPoints[k].lon.inf
              /\ stopPoints[k].location_type = AsString(ValidRows[k].location_type)
              /\ stopPoints[k].parent_station = AsString(ValidRows[k].parent_station)
              /\ stopPoints[k].wheelchair_boarding = AsString(ValidRows[k].wheelchair_boarding)
              /\ Undefined \notin {stopPoints[k].location_type, stopPoints[k].parent_station,
                                   stopPoints[k].wheelchair_boarding}

\* a row with an infinite latitude is dropped, and the row kept after it, which
\* lacks two of the optional columns, gets empty strings for them
C12_Witness ==
    /\ pc = "done"
    /\ Len(stopRows) = 2 /\ Len(stopPoints) = 1
    /\ stopRows[1].stop_lat = InfinityText
    /\ stopRows[2].stop_lat = <<"3", "x">>
    /\ stopRows[2].parent_station = Undefined /\ stopRows[2].location_type = <<"1">>
    /\ stopPoints[1].parent_station = Empty /\ stopPoints[1].location_type = <<"1">>
    /\ stopPoints[1].lat = Num(3)

(***************************************************************************)
(* shapeToRoute (Map.tsx lines 117-125) and routeWheelchair (lines 241-252)*)
(* built from the rows of trips.txt                                        *)
(***************************************************************************)
\* the texts of the columns of trips.txt, as parseCSV hands them over (trimmed);
\* the header may lack the wheelchair_accessible column
TripShapeTexts == {Empty, <<"s">>, <<"t">>}
TripRouteTexts == {Empty, <<"r">>, <<"q">>}
TripRowsWith(flags) ==
    {Trip(shapeId, routeId, wa) : shapeId \in TripShapeTexts, routeId \in TripRouteTexts,
                                  wa \in flags}
TripRowSeqs ==
    UNION {UNION {[1..n -> TripRowsWith(flags)] : n \in 0..MaxTripRows} :
             flags \in {{<<"1">>, <<"0">>}, {Undefined}}}

TripsInit ==
    /\ pc = "start"
    /\ tripRows \in TripRowSeqs
    /\ shapeToRoute = <<>>
    /\ routeWheelchair = <<>>
    /\ text = <<>> /\ objects = <<>>
    /\ shapes = <<>> /\ shapeMap = <<>>
    /\ routes = <<>> /\ routeColor = <<>>
    /\ memo = <<>> /\ stopToRouteNames = <<>> /\ stopToRouteIds = <<>>
    /\ selectedRoute = <<>> /\ routeSearch = <<>> /\ wheelchairOnly = FALSE
    /\ stopMetaFilter = <<>> /\ hdPolyline = <<>> /\ latest = <<>> /\ stale = <<>>
    /\ polylines = {} /\ markers = {} /\ markersAlt = {}
    /\ options = <<>> /\ layers = <<>> /\ layersAlt = <<>>
    /\ stopPoints = <<>> /\ gridSizePx = <<>> /\ view = <<>> /\ clusters = <<>>
    /\ handlers = <<>> /\ lastPass = <<>>
    /\ stopRows = <<>>
    /\ relationId = 0 /\ ways = <<>> /\ error = <<>> /\ relLatest = <<>> /\ relStale = <<>> /\ relShown = <<>>

\* lines 117-125: the useMemo
BuildShapeToRoute ==
    /\ pc = "start"
    /\ shapeToRoute' = ShapeToRouteOf(tripRows, 1, <<>>)
    /\ pc' = "linked"
    /\ UNCHANGED <<stopRows, tripRows, routeWheelchair, gridVars, csvVars, shapeVars,
                   routeVars, joinVars, filterVars, fetchVars, viewVars, relVars>>

\* lines 241-252: the useMemo
BuildRouteWheelchair ==
    /\ pc = "linked"
    /\ routeWheelchair' = RouteWheelchairOf(tripRows, 1, <<>>)
    /\ pc' = "done"
    /\ UNCHANGED <<stopRows, tripRows, shapeToRoute, gridVars, csvVars, shapeVars,
                   routeVars, joinVars, filterVars, fetchVars, viewVars, relVars>>

TripsNext == BuildShapeToRoute \/ BuildRouteWheelchair

(***************************************************************************)
(* Claims about shapeToRoute and routeWheelchair                           *)
(***************************************************************************)
\* the trip rows that link shape s to a route
LinksOf(s) ==
    {i \in 1..Len(tripRows) :
        tripRows[i].shape_id = s /\ tripRows[i].route_id \notin {Empty, Undefined}}
First(S) == CHOOSE i \in S : \A j \in S : i <= j
\* the trip rows of shape s alone, in their order
OnlyRowsOf(s) == LET OfShape(row) == row.shape_id = s IN SelectSeq(tripRows, OfShape)

\* C13: a shape id is mapped to the route id of the first trip row that has
\* that shape id and a route id; rows lacking either are skipped; the route of
\* a shape is the one its own rows alone give, whatever the other rows are
C13_FirstRouteOfShapeWins ==
    pc \in {"linked", "done"} =>
        /\ Empty \notin MapKeys(shapeToRoute) /\ Undefined \notin MapKeys(shapeToRoute)
        /\ \A s \in TripShapeTexts \ {Empty} :
              /\ MapHas(shapeToRoute, s) <=> LinksOf(s) # {}
              /\ LinksOf(s) # {} =>
                    MapGet(shapeToRoute, s) = tripRows[First(LinksOf(s))].route_id
              /\ MapGetOr(shapeToRoute, s, Undefined)
                    = MapGetOr(ShapeToRouteOf(OnlyRowsOf(s), 1, <<>>), s, Undefined)

\* a row of shape s without route, then shape s on route q, then on route r:
\* the shape is on route q
C13_Witness ==
    /\ pc = "done"
    /\ Len(tripRows) = 3
    /\ tripRows[1].shape_id = <<"s">> /\ tripRows[1].route_id = Empty
    /\ tripRows[2].shape_id = <<"s">> /\ tripRows[2].route_id = <<"q">>
    /\ tripRows[3].shape_id = <<"s">> /\ tripRows[3].route_id = <<"r">>
    /\ shapeToRoute = <<[k |-> <<"s">>, v |-> <<"q">>]>>

\* a feed of one shape on route r and no stop, with the accessibility map built
OneRoute(r) ==
    [stopPoints |-> <<>>,
     shapeMap |-> <<[k |-> <<"s">>, v |-> <<Pt(0, 0)>>]>>,
     shapeToRoute |-> <<[k |-> <<"s">>, v |-> r]>>,
     routeShortName |-> <<>>,
     routeColor |-> <<>>,
     routeWheelchair |-> routeWheelchair]

\* C14: the accessibility map has a route id, mapped to true, iff a trip row of
\* that route has wheelchair_accessible "1"; it has no false entry; the stop
\* filter and the polyline filter take a route that is not in it as not
\* accessible
C14_AccessibleIffSomeTripSaysSo ==
    pc = "done" =>
        /\ \A e \in 1..Len(routeWheelchair) : routeWheelchair[e].v = TRUE
        /\ MapKeys(routeWheelchair) \subseteq TripRouteTexts \ {Empty}
        /\ \A r \in TripRouteTexts \ {Empty} :
              /\ MapHas(routeWheelchair, r)
                    <=> \E i \in 1..Len(tripRows) :
                           /\ tripRows[i].route_id = r
                           /\ tripRows[i].wheelchair_accessible = <<"1">>
              /\ RouteAccessible(OneRoute(r), <<r>>) <=> MapHas(routeWheelchair, r)
              /\ PolylineShown(OneRoute(r), <<>>, 1, Empty, Empty, TRUE)
                    <=> MapHas(routeWheelchair, r)

\* route r has a trip flagged "0" and a later one flagged "1", route q only a
\* trip flagged "0": r is in the map and q is not
C14_Witness ==
    /\ pc = "done"
    /\ Len(tripRows) = 3
    /\ tripRows[1].route_id = <<"r">> /\ tripRows[1].wheelchair_accessible = <<"0">>
    /\ tripRows[2].route_id = <<"q">> /\ tripRows[2].wheelchair_accessible = <<"0">>
    /\ tripRows[3].route_id = <<"r">> /\ tripRows[3].wheelchair_accessible = <<"1">>
    /\ routeWheelchair = <<[k |-> <<"r">>, v |-> TRUE]>>
    /\ ~RouteAccessible(OneRoute(<<"q">>), <<<<"q">>>>)

(***************************************************************************)
(* Claims about the route picker and the cluster groups of the stop layer  *)
(***************************************************************************)
DisplayNames == {memo.routeShortName[i].v : i \in 1..Len(memo.routeShortName)}
Offered == Tail(options)
Alphabetical(names) ==
    \A i, j \in 1..Len(names) : i < j => LocaleCompare(names[i], names[j]) < 0

\* C15: in every state of the filters the select offers, after its empty
\* entry, exactly the display names of the routes, each once and in
\* alphabetical order, so the selected route is always among the entries
C15_PickerOffersEveryRouteName ==
    pc = "mounted" =>
        /\ Range(Offered) = DisplayNames
        /\ Alphabetical(Offered)
        /\ selectedRoute \in Range(options)

\* the selected route is offered while no search text is typed
C15_Witness ==
    /\ pc = "mounted"
    /\ routeSearch = Empty
    /\ selectedRoute = <<"A", "b">>
    /\ options = <<Empty, <<"a">>, <<"A", "b">>, <<"b">>>>

OtherFiltersPass(stop) == MetaPasses(stop) /\ SelectionPasses(stop) /\ AccessPasses(stop)
PassingStops ==
    {j \in 1..Len(memo.stopPoints) :
        /\ OtherFiltersPass(memo.stopPoints[j])
        /\ routeSearch = Empty
              \/ \E n \in NamesOf(memo.stopPoints[j].id) : CiEqual(n, routeSearch)}
PassingStopsAlt ==
    {j \in 1..Len(memo.stopPoints) :
        /\ OtherFiltersPass(memo.stopPoints[j])
        /\ routeSearch = Empty
              \/ \E n \in NamesOf(memo.stopPoints[j].id) : CiSubstring(routeSearch, n)}
OneMarkerPerStop(group, stops) ==
    /\ Range(group) = stops
    /\ Len(group) = Cardinality(stops)

\* C19: at any moment at most one cluster group of the stop layer is attached
\* to the map, in either variant of the layer; while the layer is mounted that
\* group holds exactly one marker for each stop passing the current filters,
\* and after unmount no group is attached
C19_OneClusterGroupAttached ==
    /\ Len(layers) <= 1 /\ Len(layersAlt) <= 1
    /\ pc = "mounted" =>
          /\ Len(layers) = 1 /\ OneMarkerPerStop(layers[1], PassingStops)
          /\ Len(layersAlt) = 1 /\ OneMarkerPerStop(layersAlt[1], PassingStopsAlt)
    /\ pc = "unmounted" => layers = <<>> /\ layersAlt = <<>>

\* the layer is unmounted after a filter left it a group of some of the stops
C19_Witness ==
    /\ pc = "unmounted"
    /\ wheelchairOnly
    /\ markers # {} /\ Cardinality(markers) < Len(memo.stopPoints)
    /\ layers = <<>> /\ layersAlt = <<>>

C19_WitnessFiltered ==
    /\ pc = "mounted"
    /\ stopMetaFilter # Empty
    /\ Len(layers) = 1 /\ layers[1] # <<>> /\ Len(layers[1]) < Len(memo.stopPoints)

(***************************************************************************)
(* part_000: OSMRelation, the geometry of a relation fetched from Overpass *)
(***************************************************************************)
\* the relations the parent asks for; 0 stands for no relation (line 16)
RelationIds == {0, 1, 2, 3}

\* an element of the Overpass answer; array tells whether geometry is an array
Element(type, array, geometry) == [type |-> type, array |-> array, geometry |-> geometry]
LatLon(x, y) == [lat |-> y, lon |-> x]

\* the answer of Overpass for a relation: a node, a way with its geometry and
\* a way without geometry; or an answer without elements
Data(id) ==
    [hasElements |-> TRUE,
     elements |-> <<Element("node", FALSE, <<>>),
                    Element("way", TRUE, <<LatLon(id, 0), LatLon(id, id)>>),
                    Element("way", FALSE, <<>>)>>]
NoElements == [hasElements |-> FALSE, elements |-> <<>>]

\* lines 35-38: the ways of an answer, each a list of [lat, lon] pairs
RECURSIVE ParsedFrom(_, _)
ParsedFrom(elems, i) ==
    IF i > Len(elems) THEN <<>>
    ELSE LET e == elems[i]
         IN  (IF e.type = "way" /\ e.array
              THEN <<[g \in 1..Len(e.geometry) |-> <<e.geometry[g].lat, e.geometry[g].lon>>]>>
              ELSE <<>>) \o ParsedFrom(elems, i + 1)

Parsed(data) == ParsedFrom(IF data.hasElements THEN data.elements ELSE <<>>, 1)

\* lines 31 and 41: String(e) of the error thrown for a response that is not ok
ErrorString(status) == <<"E", "r", "r", "o", "r", ":", " ">> \o status
Status500 == <<"5", "0", "0">>

\* how a request can settle: with the ways of its relation, with an answer
\* without elements, or rejected
Outcomes == {"ways", "empty", "rejected"}

\* lines 44-53: what the render draws
Shown(id, w, err) ==
    IF id = 0 THEN Null
    ELSE IF err # Null THEN Null
    ELSE w

NoFetch == [id |-> 0, state |-> "none"]

RelInFlight ==
    SumOver(relStale, DOMAIN relStale) + (IF relLatest.state = "pending" THEN 1 ELSE 0)

\* lines 12-13 and the first run of the effect, lines 15-42
RelationInit ==
    /\ pc = "mounted"
    /\ relationId \in RelationIds
    /\ ways = <<>>
    /\ error = Null
    /\ relLatest = IF relationId = 0 THEN NoFetch ELSE [id |-> relationId, state |-> "pending"]
    /\ relStale = [id \in RelationIds \ {0} |-> 0]
    /\ relShown = Shown(relationId, ways, error)
    /\ text = <<>> /\ objects = <<>>
    /\ shapes = <<>> /\ shapeMap = <<>>
    /\ routes = <<>> /\ routeColor = <<>>
    /\ memo = <<>> /\ stopToRouteNames = <<>> /\ stopToRouteIds = <<>>
    /\ selectedRoute = <<>> /\ routeSearch = <<>> /\ wheelchairOnly = FALSE /\ stopMetaFilter = <<>>
    /\ hdPolyline = <<>> /\ latest = <<>> /\ stale = <<>>
    /\ polylines = {} /\ markers = {} /\ markersAlt = {}
    /\ options = <<>> /\ layers = <<>> /\ layersAlt = <<>>
    /\ stopPoints = <<>> /\ gridSizePx = <<>> /\ view = <<>> /\ clusters = <<>> /\ handlers = <<>> /\ lastPass = <<>>
    /\ stopRows = <<>> /\ tripRows = <<>> /\ shapeToRoute = <<>> /\ routeWheelchair = <<>>

RelOther ==
    <<pc, csvVars, shapeVars, routeVars, joinVars, filterVars, fetchVars, viewVars,
      gridVars, tableVars>>

\* lines 15-42: the parent hands a new relationId, the effect runs again; the
\* request of its previous run, if still pending, stays in flight
SetRelationId(id) ==
    /\ pc = "mounted"
    /\ id # relationId
    /\ id # 0 => RelInFlight < MaxRelationFetches
    /\ relationId' = id
    /\ relStale' = IF relLatest.state = "pending"
                   THEN [relStale EXCEPT ![relLatest.id] = @ + 1]
                   ELSE relStale
    /\ IF id = 0
       THEN /\ relLatest' = NoFetch
            /\ UNCHANGED <<ways, error>>
       ELSE /\ ways' = <<>>
            /\ error' = Null
            /\ relLatest' = [id |-> id, state |-> "pending"]
    /\ relShown' = Shown(relationId', ways', error')
    /\ UNCHANGED RelOther

\* lines 30-41: the callbacks of a request that settles
Settle(id, outcome) ==
    /\ ways' = CASE outcome = "ways" -> Parsed(Data(id))
                 [] outcome = "empty" -> Parsed(NoElements)
                 [] OTHER -> ways
    /\ error' = IF outcome = "rejected" THEN ErrorString(Status500) ELSE error
    /\ relShown' = Shown(relationId, ways', error')

\* the request of the last run of the effect settles
ResolveRelation(outcome) ==
    /\ pc = "mounted"
    /\ relLatest.state = "pending"
    /\ relLatest' = [relLatest EXCEPT !.state = "settled"]
    /\ Settle(relLatest.id, outcome)
    /\ UNCHANGED <<relationId, relStale>>
    /\ UNCHANGED RelOther

\* a request of an earlier run of the effect settles; lines 30-41 run all the
\* same, nothing in them looks at the relationId of the moment
ResolveStaleRelation(id, outcome) ==
    /\ pc = "mounted"
    /\ id \in DOMAIN relStale
    /\ relStale[id] > 0
    /\ relStale' = [relStale EXCEPT ![id] = @ - 1]
    /\ Settle(id, outcome)
    /\ UNCHANGED <<relationId, relLatest>>
    /\ UNCHANGED RelOther

RelationNext ==
    \/ \E id \in RelationIds : SetRelationId(id)
    \/ \E outcome \in Outcomes : ResolveRelation(outcome)
    \/ \E id \in RelationIds \ {0}, outcome \in Outcomes : ResolveStaleRelation(id, outcome)

(***************************************************************************)
(* Claims about OSMRelation                                                *)
(***************************************************************************)
WaysReturnedFor(id) ==
    <<<<<<0, id>>, <<id, id>>>>>>
StaleSettles == \E id \in DOMAIN relStale : relStale'[id] < relStale[id]

\* C16: the ways on display are none or those Overpass returned for the
\* current relationId, and a request of an earlier run of the effect that
\* settles, with ways or with a failure, changes nothing on display
C16_StaleRelationDiscarded ==
    /\ [](relShown = <<>> \/ relShown = WaysReturnedFor(relationId))
    /\ [][StaleSettles => relShown' = relShown]_<<relationId, ways, error, relLatest, relStale, relShown>>

vars == <<pc, text, objects, shapes, shapeMap, routes, routeColor, memo,
          stopToRouteNames, stopToRouteIds, selectedRoute, routeSearch,
          wheelchairOnly, stopMetaFilter, hdPolyline, latest, stale, polylines,
          markers, markersAlt, options, layers, layersAlt,
          stopPoints, gridSizePx, view, clusters, handlers, lastPass,
          stopRows, tripRows, shapeToRoute, routeWheelchair,
          relationId, ways, error, relLatest, relStale, relShown>>

SpecCSV == CsvInit /\ [][Parse]_vars

SpecShapes == ShapeInit /\ [][BuildShapeMap]_vars

SpecRoutes == RouteInit /\ [][BuildRouteColor]_vars

SpecJoin == JoinInit /\ [][Join]_vars
Spec == Init /\ [][Next]_vars

SpecGrid == GridInit /\ [][GridNext]_vars

SpecStops == StopsInit /\ [][BuildStopPoints]_vars

SpecTrips == TripsInit /\ [][TripsNext]_vars
SpecRelation == RelationInit /\ [][RelationNext]_vars
====
